---- MODULE Spec2Model ----
(***************************************************************************)
(* Transcript acquisition of ebook_pipeline/youtube.py: playlist discovery *)
(* (find_playlist_id), video listing (get_playlist_videos), the per-video  *)
(* transcript fallback chain (assemble_talk_entry, fetch_single_transcript)*)
(* and the batch driver fetch_and_store.                                   *)
(*                                                                         *)
(* Python str values are TLA+ strings; None (where a str is expected) is   *)
(* the sentinel None below.  Times are integers in tenths of a second.     *)
(***************************************************************************)
EXTENDS Integers, Sequences, FiniteSets, TLC

VARIABLES
    mode,               \* "batch" (fetch_and_store) or "single" (fetch_single_transcript)
    pc,                 \* position in the running function
    playlist_id,        \* argument playlist_id of fetch_and_store
    limit,              \* argument limit of fetch_and_store
    languages,          \* argument languages / langs
    resolved_playlist,  \* local resolved_playlist
    videos,             \* local videos (list of VideoRef)
    idx,                \* 1-based index of the video being processed
    cur,                \* the video handed to the chain
    transcript,         \* local transcript of the chain
    xml_text,           \* local xml_text of the chain
    date,               \* local date of assemble_talk_entry
    talks,              \* local talks
    exported_list,      \* local exported_list
    videos_file,        \* sequence of payloads written to videos.json
    talks_file,         \* sequence of payloads written to talks.json
    error,              \* exception that left the function, or "none"
    result,             \* return value of fetch_single_transcript
    entry,              \* local entry of the loop of fetch_and_store
    printed,            \* the per-video lines printed by fetch_and_store
    fetches,            \* network requests issued since the run began, or by
                        \* assemble_talk_entry for cur while it runs; in order
    tried,              \* inside find_playlist_id: what each strategy run
                        \* so far scanned
    playlist_page,      \* inside get_playlist_videos: the page it fetched
    attempts,           \* inside the chain: sources attempted for cur, in order
    observed,           \* inside the chain: what each attempted source returned
    call,               \* a helper function called on its own: its name and
                        \* arguments
    frame,              \* the local variables of that call and its position
    ret                 \* what that call returned

\* the state of fetch_and_store / fetch_single_transcript
pipelineVars ==
    <<mode, pc, playlist_id, limit, languages, resolved_playlist, videos,
      idx, cur, transcript, xml_text, date, talks, exported_list,
      videos_file, talks_file, error, result, entry, printed,
      fetches, tried, playlist_page, attempts, observed>>

\* the state of a helper function called on its own
unitVars == <<call, frame, ret>>

vars == <<pipelineVars, unitVars>>

-----------------------------------------------------------------------------
(* Bounds of the model *)

MaxCands == 2       \* playlist renderers per discovery page
MaxEntries == 3     \* playlist-video renderers on the playlist page
MaxTracks == 2      \* caption tracks in a player response
MaxLangs == 1       \* preferred languages

-----------------------------------------------------------------------------
(* Python values *)

None == "None"

Truthy(s) == s # None /\ s # ""

NoEntry == [none |-> TRUE]

RECURSIVE SeqsUpTo(_, _)
SeqsUpTo(S, n) ==
    IF n = 0 THEN {<<>>}
    ELSE LET shorter == SeqsUpTo(S, n - 1)
         IN  shorter \cup {Append(q, e) : q \in shorter, e \in S}

-----------------------------------------------------------------------------
(* str methods *)

Whitespace == {" ", "\n", "\t"}

CharAt(s, i) == SubSeq(s, i, i)

\* str.find: 1-based index of the first occurrence at or after i, 0 if absent
StrFind(s, sub, i) ==
    LET IsAt(k) == SubSeq(s, k, k + Len(sub) - 1) = sub
        last == Len(s) - Len(sub) + 1
    IN  IF \E k \in i..last : IsAt(k)
        THEN CHOOSE k \in i..last : IsAt(k) /\ \A j \in i..(k - 1) : ~IsAt(j)
        ELSE 0

\* sub in s
Contains(s, sub) == StrFind(s, sub, 1) # 0

\* str.startswith, str.endswith
StartsWith(s, prefix) ==
    Len(prefix) <= Len(s) /\ SubSeq(s, 1, Len(prefix)) = prefix

EndsWith(s, suffix) ==
    Len(suffix) <= Len(s) /\ SubSeq(s, Len(s) - Len(suffix) + 1, Len(s)) = suffix

\* the lower-case form of every upper-case letter
LowerOf ==
    "A" :> "a" @@ "B" :> "b" @@ "C" :> "c" @@ "D" :> "d" @@ "E" :> "e" @@
    "F" :> "f" @@ "G" :> "g" @@ "H" :> "h" @@ "I" :> "i" @@ "J" :> "j" @@
    "K" :> "k" @@ "L" :> "l" @@ "M" :> "m" @@ "N" :> "n" @@ "O" :> "o" @@
    "P" :> "p" @@ "Q" :> "q" @@ "R" :> "r" @@ "S" :> "s" @@ "T" :> "t" @@
    "U" :> "u" @@ "V" :> "v" @@ "W" :> "w" @@ "X" :> "x" @@ "Y" :> "y" @@
    "Z" :> "z"

LowerChar(c) == IF c \in DOMAIN LowerOf THEN LowerOf[c] ELSE c

\* str.lower
RECURSIVE Lower(_)
Lower(s) ==
    IF s = "" THEN ""
    ELSE LowerChar(CharAt(s, 1)) \o Lower(SubSeq(s, 2, Len(s)))

\* str.replace
RECURSIVE Replace(_, _, _)
Replace(s, old, new) ==
    LET i == StrFind(s, old, 1)
    IN  IF i = 0 THEN s
        ELSE SubSeq(s, 1, i - 1) \o new
             \o Replace(SubSeq(s, i + Len(old), Len(s)), old, new)

IsSpace(s, k) == CharAt(s, k) \in Whitespace

\* str.lstrip
LStrip(s) ==
    IF \A k \in 1..Len(s) : IsSpace(s, k) THEN ""
    ELSE LET first == CHOOSE k \in 1..Len(s) :
                          ~IsSpace(s, k) /\ \A j \in 1..(k - 1) : IsSpace(s, j)
         IN  SubSeq(s, first, Len(s))

\* str.rstrip
RStrip(s) ==
    IF \A k \in 1..Len(s) : IsSpace(s, k) THEN ""
    ELSE LET last == CHOOSE k \in 1..Len(s) :
                         ~IsSpace(s, k) /\ \A j \in (k + 1)..Len(s) : IsSpace(s, j)
         IN  SubSeq(s, 1, last)

\* str.strip
Strip(s) == LStrip(RStrip(s))

\* what re.sub(r"\s+", " ", s) leaves of the character at k: itself, one
\* space for the first character of a run of whitespace, nothing for the rest
CollapsedAt(s, k) ==
    IF ~IsSpace(s, k) THEN CharAt(s, k)
    ELSE IF k > 1 /\ IsSpace(s, k - 1) THEN "" ELSE " "

RECURSIVE CollapseRange(_, _, _)
CollapseRange(s, a, b) ==
    IF a > b THEN ""
    ELSE IF a = b THEN CollapsedAt(s, a)
    ELSE LET mid == (a + b) \div 2
         IN  CollapseRange(s, a, mid) \o CollapseRange(s, mid + 1, b)

\* re.sub(r"\s+", " ", s)
CollapseWs(s) == CollapseRange(s, 1, Len(s))

\* sep.join(parts)
RECURSIVE Join(_, _)
Join(sep, parts) ==
    IF parts = <<>> THEN ""
    ELSE IF Len(parts) = 1 THEN parts[1]
    ELSE parts[1] \o sep \o Join(sep, Tail(parts))

-----------------------------------------------------------------------------
(* Embedded initial data of a fetched page.                                *)
(* A page is FetchFailed (fetch raised after its retries) or a record:     *)
(*   located: an anchor followed by a balanced {...} is present            *)
(*   parses:  json.loads accepts the extracted text                        *)
(*   other:   number of keys of the object besides the renderer lists      *)
(*   playlistRenderer, gridPlaylistRenderer, playlistVideoRenderer:        *)
(*            the nodes rfind yields for that key, in document order       *)
(*   broken:  some node makes text_from_runs raise while it is scanned     *)
(***************************************************************************)

FetchFailed == [failed |-> TRUE]

Page(loc, par, oth, prs, gprs, pvrs, brk) ==
    [failed |-> FALSE, located |-> loc, parses |-> par, other |-> oth,
     playlistRenderer |-> prs, gridPlaylistRenderer |-> gprs,
     playlistVideoRenderer |-> pvrs, broken |-> brk]

\* the dict is empty: bool(data) is False
IsEmptyDict(data) ==
    /\ data.other = 0
    /\ data.playlistRenderer = <<>>
    /\ data.gridPlaylistRenderer = <<>>
    /\ data.playlistVideoRenderer = <<>>

\* get_yt_initial_data: the parsed object, or None
get_yt_initial_data(page) ==
    IF page.located /\ page.parses THEN page ELSE [none |-> TRUE]

DataIsNone(data) == "none" \in DOMAIN data

\* "if data:" / "if not data:"
DataTruthy(data) == ~DataIsNone(data) /\ ~IsEmptyDict(data)

-----------------------------------------------------------------------------
(* Playlist discovery *)

\* _score_title_for_series
_score_title_for_series(title) ==
    LET t == Lower(title)
    IN  (IF Contains(t, "ai") THEN 2 ELSE 0)
      + (IF Contains(t, "startup") THEN 2 ELSE 0)
      + (IF Contains(t, "school") THEN 2 ELSE 0)
      + (IF Contains(t, "yc") \/ Contains(t, "y combinator") THEN 1 ELSE 0)
      + (IF Contains(t, "ai startup school") THEN 5 ELSE 0)

\* the (plid, title) pairs appended to candidates, in scan order
RECURSIVE Candidates(_)
Candidates(nodes) ==
    IF nodes = <<>> THEN <<>>
    ELSE LET n == Head(nodes)
             rest == Candidates(Tail(nodes))
         IN  IF n.isdict /\ Truthy(n.playlistId) /\ Truthy(n.title)
             THEN <<(<<n.playlistId, n.title>>)>> \o rest
             ELSE rest

\* variant: an unstable descending sort that puts later equals first
RECURSIVE InsertByScoreUnstable(_, _)
InsertByScoreUnstable(sorted, c) ==
    IF sorted = <<>> THEN <<c>>
    ELSE IF _score_title_for_series(Head(sorted)[2]) > _score_title_for_series(c[2])
         THEN <<Head(sorted)>> \o InsertByScoreUnstable(Tail(sorted), c)
         ELSE <<c>> \o sorted

\* list.sort(key=score, reverse=True) is stable: an element goes after every
\* element already placed whose score is at least its own
RECURSIVE InsertByScore(_, _)
InsertByScore(sorted, c) ==
    IF sorted = <<>> THEN <<c>>
    ELSE IF _score_title_for_series(Head(sorted)[2]) >= _score_title_for_series(c[2])
         THEN <<Head(sorted)>> \o InsertByScore(Tail(sorted), c)
         ELSE <<c>> \o sorted

RECURSIVE SortByScore(_)
SortByScore(cands) ==
    IF cands = <<>> THEN <<>>
    ELSE InsertByScore(SortByScore(SubSeq(cands, 1, Len(cands) - 1)),
                       cands[Len(cands)])

\* one strategy of find_playlist_id on the page its fetch returned: the
\* playlist id it returns, or None when control falls through to the next
StrategyResult(page, key) ==
    IF page.failed THEN None                     \* fetch raised: except Exception
    ELSE LET data == get_yt_initial_data(page)
         IN  IF ~DataTruthy(data) THEN None
             ELSE IF page.broken THEN None       \* scan raised: except Exception
             ELSE LET candidates == Candidates(data[key])
                  IN  IF candidates = <<>> THEN None
                      ELSE SortByScore(candidates)[1][1]

\* what a strategy did with its page: how far it got and, when it scanned
\* the page to the end, the candidates it collected
StrategyOutcome(page, key) ==
    IF page.failed THEN [status |-> "fetch failed", candidates |-> <<>>]
    ELSE IF ~(page.located /\ page.parses)
    THEN [status |-> "no data", candidates |-> <<>>]
    ELSE IF IsEmptyDict(page) THEN [status |-> "scanned", candidates |-> <<>>]
    ELSE IF page.broken THEN [status |-> "scan failed", candidates |-> <<>>]
    ELSE [status |-> "scanned", candidates |-> Candidates(page[key])]

\* variant: the early return dropped, every strategy runs
AfterStrategyNoReturn(found, next) == next

\* where find_playlist_id goes after a strategy
AfterStrategy(found, next) == IF found # None THEN "resolved" ELSE next

PlaylistNodes ==
    { [isdict |-> TRUE, playlistId |-> "PL1", title |-> "Startup School Vol 2"],
      [isdict |-> TRUE, playlistId |-> "PL2", title |-> "YC AI Startup School: Opening"],
      [isdict |-> TRUE, playlistId |-> "PL3", title |-> "School for Startup Founders"],
      [isdict |-> TRUE, playlistId |-> "", title |-> "AI Startup School"],
      [isdict |-> FALSE, playlistId |-> "PL4", title |-> "AI Startup School"] }

DiscoveryPages ==
    {FetchFailed,
     Page(FALSE, FALSE, 0, <<>>, <<>>, <<>>, FALSE),
     Page(TRUE, FALSE, 0, <<>>, <<>>, <<>>, FALSE),
     Page(TRUE, TRUE, 0, <<>>, <<>>, <<>>, FALSE)}
    \cup { Page(TRUE, TRUE, 1, ns, <<>>, <<>>, b) :
             ns \in SeqsUpTo(PlaylistNodes, MaxCands), b \in BOOLEAN }
    \cup { Page(TRUE, TRUE, 1, <<>>, ns, <<>>, b) :
             ns \in SeqsUpTo(PlaylistNodes, MaxCands), b \in BOOLEAN }

-----------------------------------------------------------------------------
(* Video listing *)

WatchUrl(vid) == "https://www.youtube.com/watch?v=" \o vid

\* the VideoRefs appended to videos, in scan order
RECURSIVE PlaylistVideos(_)
PlaylistVideos(nodes) ==
    IF nodes = <<>> THEN <<>>
    ELSE LET pvr == Head(nodes)
             rest == PlaylistVideos(Tail(nodes))
         IN  IF pvr.isdict /\ Truthy(pvr.videoId) /\ Truthy(pvr.title)
             THEN <<[video_id |-> pvr.videoId, title |-> pvr.title,
                     url |-> WatchUrl(pvr.videoId)]>> \o rest
             ELSE rest

\* variant: a later entry of a video id overwrites the kept one
RECURSIVE DeduplicateKeepLast(_)
DeduplicateKeepLast(vs) ==
    IF vs = <<>> THEN <<>>
    ELSE LET uniq == DeduplicateKeepLast(SubSeq(vs, 1, Len(vs) - 1))
             v == vs[Len(vs)]
         IN  IF \E i \in 1..Len(uniq) : uniq[i].video_id = v.video_id
             THEN [i \in 1..Len(uniq) |->
                     IF uniq[i].video_id = v.video_id THEN v ELSE uniq[i]]
             ELSE Append(uniq, v)

\* the seen/uniq loop: the first entry of every video id, in order
RECURSIVE Deduplicate(_)
Deduplicate(vs) ==
    IF vs = <<>> THEN <<>>
    ELSE LET uniq == Deduplicate(SubSeq(vs, 1, Len(vs) - 1))
             v == vs[Len(vs)]
         IN  IF \E i \in 1..Len(uniq) : uniq[i].video_id = v.video_id
             THEN uniq ELSE Append(uniq, v)

FetchError == "RuntimeError: Failed to fetch"
PlaylistParseError == "RuntimeError: Could not parse ytInitialData for playlist page"

\* get_playlist_videos on the page its fetch returned
get_playlist_videos(page) ==
    IF page.failed THEN [raised |-> FetchError, videos |-> <<>>]
    ELSE LET data == get_yt_initial_data(page)
         IN  IF ~DataTruthy(data)
             THEN [raised |-> PlaylistParseError, videos |-> <<>>]
             ELSE IF page.broken
             THEN [raised |-> "TypeError", videos |-> <<>>]
             ELSE [raised |-> "none",
                   videos |-> Deduplicate(PlaylistVideos(data.playlistVideoRenderer))]

\* videos[:limit] when limit is positive
ApplyLimit(vs, lim) ==
    IF lim > 0 THEN SubSeq(vs, 1, IF lim < Len(vs) THEN lim ELSE Len(vs)) ELSE vs

VideoNodes ==
    { [isdict |-> TRUE, videoId |-> "v1", title |-> "T1"],
      [isdict |-> TRUE, videoId |-> "v1", title |-> "T2"],
      [isdict |-> TRUE, videoId |-> "v2", title |-> "T2"],
      [isdict |-> TRUE, videoId |-> "", title |-> "T1"],
      [isdict |-> TRUE, videoId |-> "v2", title |-> ""],
      [isdict |-> FALSE, videoId |-> "v3", title |-> "T3"] }

PlaylistPages ==
    {FetchFailed,
     Page(FALSE, FALSE, 0, <<>>, <<>>, <<>>, FALSE),
     Page(TRUE, FALSE, 0, <<>>, <<>>, <<>>, FALSE),
     Page(TRUE, TRUE, 0, <<>>, <<>>, <<>>, FALSE),
     Page(TRUE, TRUE, 1, <<>>, <<>>, <<>>, TRUE)}
    \cup { Page(TRUE, TRUE, oth, <<>>, <<>>, ns, FALSE) :
             oth \in 0..1, ns \in SeqsUpTo(VideoNodes, MaxEntries) }

-----------------------------------------------------------------------------
(* Caption normalisers *)

GapLimit == 25          \* 2.5 seconds
MaxParaLen == 800

\* html.unescape on the entities captions carry; one pass, so "&amp;" last
HtmlUnescape(s) ==
    Replace(Replace(Replace(Replace(Replace(s,
        "&#39;", "'"), "&quot;", "\""), "&lt;", "<"), "&gt;", ">"), "&amp;", "&")

RECURSIVE CleanupNoCollapse(_)
CleanupNoCollapse(paras) ==
    IF paras = <<>> THEN <<>>
    ELSE IF Strip(Head(paras)) = "" THEN CleanupNoCollapse(Tail(paras))
    ELSE <<Strip(Head(paras))>> \o CleanupNoCollapse(Tail(paras))

\* paras = [re.sub(r"\s+", " ", p).strip() for p in paras if p.strip()]
RECURSIVE Cleanup(_)
Cleanup(paras) ==
    IF paras = <<>> THEN <<>>
    ELSE IF Strip(Head(paras)) = "" THEN Cleanup(Tail(paras))
    ELSE <<Strip(CollapseWs(Head(paras)))>> \o Cleanup(Tail(paras))

\* "\n\n".join(paras) + "\n"
Render(paras) == Join("\n\n", paras) \o "\n"

\* the (start, end, text) lines of the <text> nodes with non-empty text
RECURSIVE XmlLines(_)
XmlLines(nodes) ==
    IF nodes = <<>> THEN <<>>
    ELSE LET node == Head(nodes)
             txt == Strip(Replace(HtmlUnescape(node.text), "\n", " "))
             rest == XmlLines(Tail(nodes))
         IN  IF txt = "" THEN rest
             ELSE <<(<<node.start, node.start + node.dur, txt>>)>> \o rest

\* lines.sort(key=start) is stable
RECURSIVE InsertByStart(_, _)
InsertByStart(sorted, l) ==
    IF sorted = <<>> THEN <<l>>
    ELSE IF Head(sorted)[1] <= l[1]
         THEN <<Head(sorted)>> \o InsertByStart(Tail(sorted), l)
         ELSE <<l>> \o sorted

\* the lines left in document order
SortByStartNone(lines) == lines

RECURSIVE SortByStart(_)
SortByStart(lines) ==
    IF lines = <<>> THEN <<>>
    ELSE InsertByStart(SortByStart(SubSeq(lines, 1, Len(lines) - 1)),
                       lines[Len(lines)])

\* the body of the merge loop without the break at a silence gap
MergeStepNoGap(last_end, buf, paras, s, e, txt) ==
    LET buf1 == Append(buf, txt)
        long == Len(Join(" ", buf1)) > MaxParaLen
    IN  [last_end |-> e,
         buf |-> IF long THEN <<>> ELSE buf1,
         paras |-> IF long THEN Append(paras, Join(" ", buf1)) ELSE paras]

\* the body of the merge loop without the break of long paragraphs
MergeStepNoCap(last_end, buf, paras, s, e, txt) ==
    LET gapped == (s - last_end > GapLimit) /\ buf # <<>>
    IN  [last_end |-> e,
         buf |-> Append(IF gapped THEN <<>> ELSE buf, txt),
         paras |-> IF gapped THEN Append(paras, Join(" ", buf)) ELSE paras]

\* the body of the merge loop of xml_to_paragraphs and of
\* fetch_transcript_with_library for the line (s, e, txt): break at a gap,
\* buf.append(txt), last_end = e, break a long paragraph
MergeStep(last_end, buf, paras, s, e, txt) ==
    LET gapped == (s - last_end > GapLimit) /\ buf # <<>>
        paras1 == IF gapped THEN Append(paras, Join(" ", buf)) ELSE paras
        buf1 == Append(IF gapped THEN <<>> ELSE buf, txt)
        long == Len(Join(" ", buf1)) > MaxParaLen
    IN  [last_end |-> e,
         buf |-> IF long THEN <<>> ELSE buf1,
         paras |-> IF long THEN Append(paras1, Join(" ", buf1)) ELSE paras1]

\* if buf: paras.append(" ".join(buf))
FlushRest(buf, paras) == IF buf # <<>> THEN Append(paras, Join(" ", buf)) ELSE paras

\* the merge loop of xml_to_paragraphs from line i on
RECURSIVE XmlMerge(_, _, _, _, _)
XmlMerge(lines, i, last_end, buf, paras) ==
    IF i > Len(lines) THEN FlushRest(buf, paras)
    ELSE LET st == MergeStep(last_end, buf, paras,
                             lines[i][1], lines[i][2], lines[i][3])
         IN  XmlMerge(lines, i + 1, st.last_end, st.buf, st.paras)

\* float() of a start/dur attribute raises ValueError
XmlRaises(body) ==
    body.wellformed /\ \E i \in 1..Len(body.nodes) : body.nodes[i].bad

\* xml_to_paragraphs on a payload whose attributes are numbers
xml_to_paragraphs(body) ==
    IF ~body.wellformed THEN ""                      \* ET.ParseError
    ELSE LET lines == XmlLines(body.nodes)
         IN  IF lines = <<>> THEN ""
             ELSE LET sorted == SortByStart(lines)
                  IN  Render(Cleanup(XmlMerge(sorted, 1, sorted[1][2], <<>>, <<>>)))

\* txt = str(txt).replace('\n', ' ').strip()
SegText(item) == Strip(Replace(item.text, "\n", " "))

\* the merge loop of fetch_transcript_with_library from item i on
RECURSIVE LibMerge(_, _, _, _, _)
LibMerge(items, i, last_end, buf, paras) ==
    IF i > Len(items) THEN FlushRest(buf, paras)
    ELSE IF SegText(items[i]) = "" THEN LibMerge(items, i + 1, last_end, buf, paras)
    ELSE LET s == items[i].start
             st == MergeStep(last_end, buf, paras,
                             s, s + items[i].duration, SegText(items[i]))
         IN  LibMerge(items, i + 1, st.last_end, st.buf, st.paras)

\* float() of a segment's start/duration raises
LibRaises(items) == \E i \in 1..Len(items) : items[i].bad

\* fetch_transcript_with_library, given the segments the library lookups
\* ended with (<<>> when every lookup failed or the library is missing)
fetch_transcript_with_library(items) ==
    IF items = <<>> THEN None
    ELSE Render(Cleanup(LibMerge(items, 1, 0, <<>>, <<>>)))

Seg(t, s, d) == [text |-> t, start |-> s, duration |-> d, bad |-> FALSE]

LibTranscripts ==
    { <<>>,
      <<Seg(" \n ", 0, 20)>>,
      <<Seg("Hello", 0, 20), Seg("world", 20, 20)>>,
      <<[text |-> "x", start |-> 0, duration |-> 0, bad |-> TRUE]>> }

Node(t, s, d) == [text |-> t, start |-> s, dur |-> d, bad |-> FALSE]

\* An HTTP body: empty (""), looks_valid (starts with "<transcript" and
\* contains "<text"), wellformed (ET.fromstring accepts it), nodes (its
\* <text> children as parsed)
Body(emp, valid, wf, ns) ==
    [empty |-> emp, looks_valid |-> valid, wellformed |-> wf, nodes |-> ns]

NoBody == [none |-> TRUE]
Unattempted == [unattempted |-> TRUE]

BodyTruthy(b) == b # NoBody /\ ~b.empty

EmptyBody == Body(TRUE, FALSE, FALSE, <<>>)
HtmlBody == Body(FALSE, FALSE, FALSE, <<>>)
TruncatedBody == Body(FALSE, TRUE, FALSE, <<>>)
NoTextBody == Body(FALSE, FALSE, TRUE, <<>>)
BlankBody == Body(FALSE, TRUE, TRUE, <<Node("  ", 0, 20)>>)
TextBody == Body(FALSE, TRUE, TRUE,
                 <<Node("world", 20, 20), Node("Hello", 0, 20)>>)
BadAttrBody == Body(FALSE, TRUE, TRUE,
                    <<[text |-> "x", start |-> 0, dur |-> 0, bad |-> TRUE]>>)

-----------------------------------------------------------------------------
(* Transcript sources *)

\* track_score of fetch_transcript_from_player_response
track_score(t) ==
    (IF SubSeq(t.languageCode, 1, 2) = "en" THEN 3 ELSE 0)
  + (IF Contains(t.name, "English") THEN 2 ELSE 0)
  + (IF t.kind = "asr" THEN 1 ELSE 0)

\* tracks.sort(key=track_score, reverse=True) is stable
RECURSIVE InsertTrack(_, _)
InsertTrack(sorted, t) ==
    IF sorted = <<>> THEN <<t>>
    ELSE IF track_score(Head(sorted)) >= track_score(t)
         THEN <<Head(sorted)>> \o InsertTrack(Tail(sorted), t)
         ELSE <<t>> \o sorted

RECURSIVE SortTracks(_)
SortTracks(tracks) ==
    IF tracks = <<>> THEN <<>>
    ELSE InsertTrack(SortTracks(SubSeq(tracks, 1, Len(tracks) - 1)),
                     tracks[Len(tracks)])

WithFormatAlways(base_url) ==
    base_url \o (IF Contains(base_url, "?") THEN "&" ELSE "?") \o "fmt=srv1"

\* "Ensure we get XML format"
WithFormat(base_url) ==
    IF Contains(base_url, "fmt=") THEN base_url
    ELSE base_url \o (IF Contains(base_url, "?") THEN "&" ELSE "?") \o "fmt=srv1"

\* the caption URL fetch_transcript_from_player_response goes on to fetch
\* for a watch page, or None when it returns None before that
CaptionUrl(watch) ==
    IF watch = FetchFailed THEN None
    ELSE IF ~watch.pr THEN None
    ELSE IF watch.tracks = <<>> THEN None
    ELSE LET base_url == SortTracks(watch.tracks)[1].baseUrl
         IN  IF ~Truthy(base_url) THEN None ELSE WithFormat(base_url)

Track(lang, nm, knd, url) ==
    [languageCode |-> lang, name |-> nm, kind |-> knd, baseUrl |-> url]

Tracks ==
    { Track("en", "English", "", "https://captions/en?v=1"),
      Track("en", "English (auto-generated)", "asr", "https://captions/asr?fmt=srv3"),
      Track("de", "Deutsch", "", "") }

\* a watch page: fetch failed, or whether a player response with
\* videoDetails/captions is embedded, and its captionTracks
WatchPages ==
    {FetchFailed, [pr |-> FALSE, tracks |-> <<>>]}
    \cup { [pr |-> TRUE, tracks |-> ts] : ts \in SeqsUpTo(Tracks, MaxTracks) }

CaptionResponses ==
    {FetchFailed, EmptyBody, HtmlBody, NoTextBody, BlankBody, TextBody,
     BadAttrBody}

TimedTextUrl(vid, lang, k) ==
    "https://www.youtube.com/api/timedtext?v=" \o vid \o "&lang=" \o lang
    \o (IF k = 2 THEN "&kind=asr" ELSE "")

\* the requests of fetch_transcript_xml in order: per language, plain then asr
RECURSIVE TimedTextUrls(_, _)
TimedTextUrls(vid, langs) ==
    IF langs = <<>> THEN <<>>
    ELSE <<TimedTextUrl(vid, Head(langs), 1), TimedTextUrl(vid, Head(langs), 2)>>
         \o TimedTextUrls(vid, Tail(langs))

\* a response that fetch_transcript_xml returns
LooksValid(resp) == resp # FetchFailed /\ ~resp.empty /\ resp.looks_valid

\* index of the first response fetch_transcript_xml accepts, 0 if none
RECURSIVE FirstValid(_, _)
FirstValid(resps, i) ==
    IF i > Len(resps) THEN 0
    ELSE IF LooksValid(resps[i]) THEN i ELSE FirstValid(resps, i + 1)

\* fetch_transcript_xml, given the response to each request in order
fetch_transcript_xml(resps) ==
    LET k == FirstValid(resps, 1)
    IN  IF k = 0 THEN NoBody ELSE resps[k]

TimedTextResponses == {FetchFailed, HtmlBody, TruncatedBody, BlankBody, TextBody}

RECURSIVE SeqsOfLen(_, _)
SeqsOfLen(S, n) ==
    IF n = 0 THEN {<<>>}
    ELSE {Append(q, e) : q \in SeqsOfLen(S, n - 1), e \in S}

\* fetch_video_meta on a watch page that was fetched
MetaPages ==
    { [shortDescription |-> "", publishDate |-> ""],
      [shortDescription |-> "  ", publishDate |-> "2025-06-17 "],
      [shortDescription |-> " A talk about scaling.", publishDate |-> "2025-06-17 "] }

Placeholder(desc) == "Description (not a full transcript):\n\n" \o desc \o "\n"

-----------------------------------------------------------------------------
(* Initial state: the arguments of the call *)

PlaylistArgs == {None, "  ", "PLx"}
Limits == {0, 1}
LangCodes == {"en"}
LangLists == SeqsUpTo(LangCodes, MaxLangs) \ {<<>>}
SingleArgs == {None, "v1"}

NotRun == "<not run>"
NoVideo == [video_id |-> None, title |-> "", url |-> None]
NoPage == [none |-> TRUE]
FreshObserved ==
    [library |-> NotRun, player |-> Unattempted, legacy |-> Unattempted,
     description |-> NotRun, raised |-> FALSE]

NoCall == [fn |-> "none"]
NoFrame == [pc |-> "none"]

Init ==
    /\ mode \in {"batch", "single"}
    /\ pc = IF mode = "batch" THEN "resolve" ELSE "extract"
    /\ playlist_id \in IF mode = "batch" THEN PlaylistArgs ELSE {None}
    /\ limit \in IF mode = "batch" THEN Limits ELSE {0}
    /\ languages \in LangLists
    /\ resolved_playlist = ""
    /\ videos = <<>>
    /\ idx = 0
    /\ cur = NoVideo
    /\ transcript = ""
    /\ xml_text = NoBody
    /\ date = ""
    /\ talks = <<>>
    /\ exported_list = <<>>
    /\ videos_file = <<>>
    /\ talks_file = <<>>
    /\ error = "none"
    /\ result = NoEntry
    /\ entry = NoEntry
    /\ printed = <<>>
    /\ fetches = <<>>
    /\ tried = <<>>
    /\ playlist_page = NoPage
    /\ attempts = <<>>
    /\ observed = FreshObserved
    /\ call = NoCall
    /\ frame = NoFrame
    /\ ret = NotRun

-----------------------------------------------------------------------------
(* fetch_and_store: resolving and listing the playlist *)

SearchUrl == "https://www.youtube.com/results?search_query=YC+AI+Startup+School+playlist"
ChannelPlaylistsUrl == "https://www.youtube.com/@ycombinator/playlists"
ChannelSearchUrl == "https://www.youtube.com/@ycombinator/search?query=YC+AI+Startup+School"
PlaylistUrl(plid) == "https://www.youtube.com/playlist?list=" \o plid

\* resolved_playlist = (playlist_id or "").strip(); find_playlist_id if empty
Resolve ==
    /\ mode = "batch" /\ pc = "resolve"
    /\ LET rp == Strip(IF playlist_id = None THEN "" ELSE playlist_id)
       IN  /\ resolved_playlist' = rp
           /\ pc' = IF ~Truthy(rp) THEN "strategy1" ELSE "list"
    /\ UNCHANGED unitVars
    /\ UNCHANGED <<mode, playlist_id, limit, languages, videos, idx, cur,
                   transcript, xml_text, date, talks, exported_list,
                   videos_file, talks_file, error, result, entry, printed,
                   fetches, tried, playlist_page, attempts, observed>>

\* one try-block of find_playlist_id
Strategy(here, url, key, next) ==
    /\ pc = here
    /\ \E page \in DiscoveryPages :
         LET found == StrategyResult(page, key)
         IN  /\ fetches' = Append(fetches, url)
             /\ tried' = Append(tried, StrategyOutcome(page, key))
             /\ resolved_playlist' =
                   IF found # None THEN found
                   ELSE IF next = "resolved" THEN None ELSE resolved_playlist
             /\ pc' = AfterStrategy(found, next)
    /\ UNCHANGED unitVars
    /\ UNCHANGED <<mode, playlist_id, limit, languages, videos, idx, cur,
                   transcript, xml_text, date, talks, exported_list,
                   videos_file, talks_file, error, result, entry, printed,
                   playlist_page, attempts, observed>>

SearchStrategy ==
    Strategy("strategy1", SearchUrl, "playlistRenderer", "strategy2")

ChannelPlaylistsStrategy ==
    Strategy("strategy2", ChannelPlaylistsUrl, "gridPlaylistRenderer", "strategy3")

ChannelSearchStrategy ==
    Strategy("strategy3", ChannelSearchUrl, "playlistRenderer", "resolved")

\* variant: the "if not resolved_playlist: raise" test dropped
AfterDiscoveryUnchecked(rp) == "list"

\* where fetch_and_store goes once find_playlist_id has returned
AfterDiscovery(rp) == IF ~Truthy(rp) THEN "failed" ELSE "list"

\* if not resolved_playlist: raise PlaylistDiscoveryError
CheckResolved ==
    /\ pc = "resolved"
    /\ pc' = AfterDiscovery(resolved_playlist)
    /\ error' = IF pc' = "failed" THEN "PlaylistDiscoveryError" ELSE error
    /\ tried' = <<>>
    /\ UNCHANGED unitVars
    /\ UNCHANGED <<mode, playlist_id, limit, languages, resolved_playlist,
                   videos, idx, cur, transcript, xml_text, date, talks,
                   exported_list, videos_file, talks_file, result, entry,
                   printed, fetches, playlist_page, attempts, observed>>

\* videos = get_playlist_videos(resolved_playlist)
ListVideos ==
    /\ pc = "list"
    /\ \E page \in PlaylistPages :
         LET r == get_playlist_videos(page)
         IN  /\ playlist_page' = page
             /\ fetches' = Append(fetches, PlaylistUrl(resolved_playlist))
             /\ IF r.raised # "none"
                THEN /\ error' = r.raised
                     /\ pc' = "failed"
                     /\ UNCHANGED videos
                ELSE /\ videos' = r.videos
                     /\ pc' = "limit"
                     /\ UNCHANGED error
    /\ UNCHANGED unitVars
    /\ UNCHANGED <<mode, playlist_id, limit, languages, resolved_playlist,
                   idx, cur, transcript, xml_text, date, talks,
                   exported_list, videos_file, talks_file, result, entry,
                   printed, tried, attempts, observed>>

\* if limit and limit > 0: videos = videos[:limit]
LimitVideos ==
    /\ pc = "limit"
    /\ videos' = ApplyLimit(videos, limit)
    /\ idx' = 1
    /\ playlist_page' = NoPage
    /\ pc' = "next"
    /\ UNCHANGED unitVars
    /\ UNCHANGED <<mode, playlist_id, limit, languages, resolved_playlist,
                   cur, transcript, xml_text, date, talks, exported_list,
                   videos_file, talks_file, error, result, entry, printed,
                   fetches, tried, attempts, observed>>

\* for idx, video in enumerate(videos, start=1): print, assemble_talk_entry
NextVideo ==
    /\ pc = "next"
    /\ IF idx > Len(videos)
       THEN /\ pc' = "export"
            /\ UNCHANGED <<cur, transcript, xml_text, date, attempts,
                           observed, printed, fetches>>
       ELSE /\ pc' = "lib"
            /\ cur' = videos[idx]
            /\ printed' = Append(printed, <<idx, "Fetching", videos[idx].video_id>>)
            /\ fetches' = <<>>
            /\ UNCHANGED <<transcript, xml_text, date, attempts, observed>>
    /\ UNCHANGED unitVars
    /\ UNCHANGED <<mode, playlist_id, limit, languages, resolved_playlist,
                   videos, idx, talks, exported_list, videos_file,
                   talks_file, error, result, entry, tried, playlist_page>>

-----------------------------------------------------------------------------
(* The fallback chain of assemble_talk_entry and fetch_single_transcript *)

MetaUrl(vid) == WatchUrl(vid) \o "&hl=en"

ChainEndWrite(m) == "write"

\* what follows the chain in the running function
ChainEnd(m) == IF m = "batch" THEN "fallback" ELSE "single_meta"

\* variant: the try/except around assemble_talk_entry removed
OnChainExceptionUncaught(m) == "failed"

\* an exception leaving assemble_talk_entry is caught by fetch_and_store's
\* "except Exception"; fetch_single_transcript has no handler
OnChainException(m) == IF m = "batch" THEN "except" ELSE "failed"

\* if not transcript: (after the library lookup)
AfterLibrary(t, m) == IF ~Truthy(t) THEN "player" ELSE ChainEnd(m)

\* variant: "or" replaced by calling both sources unconditionally
AfterPlayerResponseBoth(x) == "legacy"

\* xml_text = fetch_transcript_from_player_response(..) or fetch_transcript_xml(..)
AfterPlayerResponse(x) == IF BodyTruthy(x) THEN "normalise" ELSE "legacy"

\* transcript = fetch_transcript_with_library(vid, langs) or ""
LibraryStep ==
    /\ pc = "lib"
    /\ attempts' = Append(attempts, "library")
    /\ \E items \in LibTranscripts :
         IF LibRaises(items)
         THEN /\ pc' = OnChainException(mode)
              /\ error' = IF pc' = "failed" THEN "ValueError" ELSE error
              /\ observed' = [observed EXCEPT !.raised = TRUE]
              /\ UNCHANGED transcript
         ELSE LET r == fetch_transcript_with_library(items)
              IN  /\ transcript' = IF r = None THEN "" ELSE r
                  /\ observed' = [observed EXCEPT !.library = r]
                  /\ pc' = AfterLibrary(transcript', mode)
                  /\ UNCHANGED error
    /\ UNCHANGED unitVars
    /\ UNCHANGED <<mode, playlist_id, limit, languages, resolved_playlist,
                   videos, idx, cur, xml_text, date, talks, exported_list,
                   videos_file, talks_file, result, entry, printed, fetches,
                   tried, playlist_page>>

\* fetch_transcript_from_player_response(vid)
PlayerResponseStep ==
    /\ pc = "player"
    /\ attempts' = Append(attempts, "player_response")
    /\ \E watch \in WatchPages, resp \in CaptionResponses :
         LET url == CaptionUrl(watch)
             r == IF url = None \/ resp = FetchFailed THEN NoBody ELSE resp
         IN  /\ fetches' = fetches \o <<MetaUrl(cur.video_id)>>
                           \o (IF url = None THEN <<>> ELSE <<url>>)
             /\ xml_text' = r
             /\ observed' = [observed EXCEPT !.player = r]
             /\ pc' = AfterPlayerResponse(r)
    /\ UNCHANGED unitVars
    /\ UNCHANGED <<mode, playlist_id, limit, languages, resolved_playlist,
                   videos, idx, cur, transcript, date, talks, exported_list,
                   videos_file, talks_file, error, result, entry, printed,
                   tried, playlist_page>>

\* fetch_transcript_xml(vid, langs)
LegacyStep ==
    /\ pc = "legacy"
    /\ attempts' = Append(attempts, "legacy")
    /\ \E resps \in SeqsOfLen(TimedTextResponses, 2 * Len(languages)) :
         LET r == fetch_transcript_xml(resps)
             k == FirstValid(resps, 1)
             urls == TimedTextUrls(cur.video_id, languages)
         IN  /\ fetches' = fetches \o SubSeq(urls, 1, IF k = 0 THEN Len(urls) ELSE k)
             /\ xml_text' = r
             /\ observed' = [observed EXCEPT !.legacy = r]
             /\ pc' = "normalise"
    /\ UNCHANGED unitVars
    /\ UNCHANGED <<mode, playlist_id, limit, languages, resolved_playlist,
                   videos, idx, cur, transcript, date, talks, exported_list,
                   videos_file, talks_file, error, result, entry, printed,
                   tried, playlist_page>>

\* transcript = xml_to_paragraphs(xml_text) if xml_text else ""
Normalise ==
    /\ pc = "normalise"
    /\ IF BodyTruthy(xml_text) /\ XmlRaises(xml_text)
       THEN /\ pc' = OnChainException(mode)
            /\ error' = IF pc' = "failed" THEN "ValueError" ELSE error
            /\ observed' = [observed EXCEPT !.raised = TRUE]
            /\ UNCHANGED transcript
       ELSE /\ transcript' = IF BodyTruthy(xml_text)
                             THEN xml_to_paragraphs(xml_text) ELSE ""
            /\ pc' = ChainEnd(mode)
            /\ UNCHANGED <<error, observed>>
    /\ UNCHANGED unitVars
    /\ UNCHANGED <<mode, playlist_id, limit, languages, resolved_playlist,
                   videos, idx, cur, xml_text, date, talks, exported_list,
                   videos_file, talks_file, result, entry, printed, fetches,
                   tried, playlist_page, attempts>>

-----------------------------------------------------------------------------
(* assemble_talk_entry after the chain, and the loop body of fetch_and_store *)

NoMeta == [shortDescription |-> "", publishDate |-> ""]

\* variant: the "if desc:" test dropped
FallbackTranscriptUnguarded(t, desc) == Placeholder(desc)

\* the transcript after the description fallback
FallbackTranscript(t, desc) == IF desc # "" THEN Placeholder(desc) ELSE t

\* the return value of assemble_talk_entry (speaker and title come from
\* split_title_and_speaker and are carried as the raw title here)
TalkEntry(video, t, d) ==
    IF ~Truthy(t) THEN NoEntry
    ELSE [raw_title |-> video.title, date |-> d, source_url |-> video.url,
          transcript |-> Strip(t) \o "\n"]

\* the end of assemble_talk_entry: without a transcript fall back to the
\* video description; return the entry, or None when there is still none
MetaFallback ==
    /\ mode = "batch" /\ pc = "fallback"
    /\ pc' = "store"
    /\ IF Truthy(transcript)
       THEN /\ entry' = TalkEntry(cur, transcript, date)
            /\ UNCHANGED <<transcript, date, fetches, observed>>
       ELSE \E page \in MetaPages \cup {FetchFailed} :
              LET meta == IF page = FetchFailed THEN NoMeta ELSE page
                  desc == Strip(meta.shortDescription)
              IN  /\ fetches' = Append(fetches, MetaUrl(cur.video_id))
                  /\ date' = Strip(meta.publishDate)
                  /\ transcript' = FallbackTranscript(transcript, desc)
                  /\ observed' = [observed EXCEPT !.description = desc]
                  /\ entry' = TalkEntry(cur, transcript', date')
    /\ UNCHANGED unitVars
    /\ UNCHANGED <<mode, playlist_id, limit, languages, resolved_playlist,
                   videos, idx, cur, xml_text, talks, exported_list,
                   videos_file, talks_file, error, result, printed, tried,
                   playlist_page, attempts>>

\* except Exception as exc: print the error; entry = None
HandleException ==
    /\ mode = "batch" /\ pc = "except"
    /\ entry' = NoEntry
    /\ printed' = Append(printed, <<idx, "Error", cur.video_id>>)
    /\ pc' = "store"
    /\ UNCHANGED unitVars
    /\ UNCHANGED <<mode, playlist_id, limit, languages, resolved_playlist,
                   videos, idx, cur, transcript, xml_text, date, talks,
                   exported_list, videos_file, talks_file, error, result,
                   fetches, tried, playlist_page, attempts, observed>>

\* variant: talks.insert(0, entry)
AppendTalkFront(ts, e) == <<e>> \o ts

\* talks.append(entry)
AppendTalk(ts, e) == Append(ts, e)

\* the rest of the loop body: keep the entry or print the skip, export the
\* video, go on; the locals of the finished assemble_talk_entry call are gone
StoreEntry ==
    /\ mode = "batch" /\ pc = "store"
    /\ talks' = IF entry # NoEntry THEN AppendTalk(talks, entry) ELSE talks
    /\ printed' = IF entry # NoEntry THEN printed
                  ELSE Append(printed, <<idx, "Skipped", cur.video_id>>)
    /\ exported_list' = Append(exported_list,
          [video_id |-> cur.video_id, title |-> cur.title, url |-> cur.url])
    /\ idx' = idx + 1
    /\ pc' = "next"
    /\ transcript' = ""
    /\ xml_text' = NoBody
    /\ date' = ""
    /\ attempts' = <<>>
    /\ observed' = FreshObserved
    /\ fetches' = <<>>
    /\ UNCHANGED unitVars
    /\ UNCHANGED <<mode, playlist_id, limit, languages, resolved_playlist,
                   videos, cur, entry, videos_file, talks_file, error,
                   result, tried, playlist_page>>

\* if export_videos: write the videos file
ExportVideos ==
    /\ pc = "export"
    /\ \E export_videos \in BOOLEAN :
         videos_file' = IF export_videos
                        THEN Append(videos_file,
                                    [playlist_id |-> resolved_playlist,
                                     videos |-> exported_list])
                        ELSE videos_file
    /\ pc' = "write"
    /\ UNCHANGED unitVars
    /\ UNCHANGED <<mode, playlist_id, limit, languages, resolved_playlist,
                   videos, idx, cur, transcript, xml_text, date, talks,
                   exported_list, talks_file, error, result, entry, printed,
                   fetches, tried, playlist_page, attempts, observed>>

\* write the talks file and return
WriteTalks ==
    /\ pc = "write"
    /\ talks_file' = Append(talks_file,
                            [series |-> "YC AI Startup School", talks |-> talks])
    /\ pc' = "done"
    /\ UNCHANGED unitVars
    /\ UNCHANGED <<mode, playlist_id, limit, languages, resolved_playlist,
                   videos, idx, cur, transcript, xml_text, date, talks,
                   exported_list, videos_file, error, result, entry, printed,
                   fetches, tried, playlist_page, attempts, observed>>

-----------------------------------------------------------------------------
(* fetch_single_transcript *)

\* vid = extract_video_id(video_url_or_id); ValueError when there is none
ExtractId ==
    /\ mode = "single" /\ pc = "extract"
    /\ \E vid \in SingleArgs :
         IF vid = None
         THEN /\ error' = "ValueError"
              /\ pc' = "failed"
              /\ UNCHANGED cur
         ELSE /\ cur' = [video_id |-> vid, title |-> "", url |-> WatchUrl(vid)]
              /\ pc' = "lib"
              /\ UNCHANGED error
    /\ UNCHANGED unitVars
    /\ UNCHANGED <<mode, playlist_id, limit, languages, resolved_playlist,
                   videos, idx, transcript, xml_text, date, talks,
                   exported_list, videos_file, talks_file, result, entry,
                   printed, fetches, tried, playlist_page, attempts, observed>>

\* meta = fetch_video_meta(vid); return None without a transcript
FinishSingle ==
    /\ mode = "single" /\ pc = "single_meta"
    /\ \E page \in MetaPages \cup {FetchFailed} :
         LET meta == IF page = FetchFailed THEN NoMeta ELSE page
         IN  /\ fetches' = Append(fetches, MetaUrl(cur.video_id))
             /\ date' = meta.publishDate
             /\ result' = IF ~Truthy(transcript) THEN NoEntry
                          ELSE [video_id |-> cur.video_id,
                                date |-> meta.publishDate,
                                source_url |-> WatchUrl(cur.video_id),
                                transcript |-> Strip(transcript) \o "\n"]
    /\ pc' = "done"
    /\ UNCHANGED unitVars
    /\ UNCHANGED <<mode, playlist_id, limit, languages, resolved_playlist,
                   videos, idx, cur, transcript, xml_text, talks,
                   exported_list, videos_file, talks_file, error, entry,
                   printed, tried, playlist_page, attempts, observed>>

-----------------------------------------------------------------------------

Next ==
    \/ Resolve
    \/ SearchStrategy
    \/ ChannelPlaylistsStrategy
    \/ ChannelSearchStrategy
    \/ CheckResolved
    \/ ListVideos
    \/ LimitVideos
    \/ NextVideo
    \/ LibraryStep
    \/ PlayerResponseStep
    \/ LegacyStep
    \/ Normalise
    \/ MetaFallback
    \/ HandleException
    \/ StoreEntry
    \/ ExportVideos
    \/ WriteTalks
    \/ ExtractId
    \/ FinishSingle

Spec == Init /\ [][Next]_vars

-----------------------------------------------------------------------------
(* Properties *)

IsPrefix(p, q) == Len(p) <= Len(q) /\ p = SubSeq(q, 1, Len(p))

InSeq(x, q) == \E i \in 1..Len(q) : q[i] = x

\* a str result that holds transcript text
HasText(t) == t # None /\ t # NotRun /\ Strip(t) # ""

\* a caption payload that holds transcript text
BodyHasText(b) ==
    /\ b # NoBody /\ b # Unattempted
    /\ ~b.empty /\ b.wellformed
    /\ \E i \in 1..Len(b.nodes) : ~b.nodes[i].bad /\ Strip(b.nodes[i].text) # ""

ChainOrder == <<"library", "player_response", "legacy">>

\* C1: the sources are attempted in the order library, player response,
\* legacy; a source is attempted only when every earlier one produced no
\* transcript text, and none is attempted after one that produced text
C1_OrderedFallback ==
    /\ IsPrefix(attempts, ChainOrder)
    /\ InSeq("player_response", attempts) => ~HasText(observed.library)
    /\ InSeq("legacy", attempts) =>
          ~HasText(observed.library) /\ ~BodyHasText(observed.player)
    /\ HasText(observed.library) => attempts = <<"library">>
    /\ BodyHasText(observed.player) => attempts = <<"library", "player_response">>

C1_Witness ==
    /\ pc \in {"store", "single_meta"}
    /\ attempts = <<"library", "player_response">>
    /\ BodyHasText(observed.player)
    /\ HasText(transcript)

ChainOver == pc \in {"fallback", "store", "single_meta", "done"}

\* C2: a caption payload from the player-response step that does not parse
\* or holds no text counts as no result, so the legacy endpoint is still
\* attempted before the video is left without a transcript
C2_UnusablePayloadFallsThrough ==
    ( /\ ChainOver
      /\ observed.player # Unattempted
      /\ BodyTruthy(observed.player)
      /\ ~XmlRaises(observed.player)
      /\ ~BodyHasText(observed.player) )
    => InSeq("legacy", attempts)

\* the library lookup returned nothing and no caption payload holds text
NoSourceText ==
    /\ observed.library \in {None, NotRun}
    /\ ~BodyHasText(observed.player)
    /\ ~BodyHasText(observed.legacy)

Returned == mode = "batch" /\ pc = "store"

Stored == mode = "batch" /\ pc = "next" /\ cur # NoVideo

Omitted(video) == \A k \in 1..Len(talks) : talks[k].source_url # video.url

HasTalk(video) == \E k \in 1..Len(talks) : talks[k].source_url = video.url

\* C4: once the loop over the videos has begun nothing aborts the run;
\* a finished run has processed every video of the list, and has written
\* the talks file with exactly the entries of the videos not skipped
C4_FailureIsolated ==
    mode = "batch" =>
      /\ pc = "failed" => (idx = 0 /\ printed = <<>> /\ exported_list = <<>>)
      /\ pc = "done" =>
           /\ Len(exported_list) = Len(videos)
           /\ \A i \in 1..Len(videos) :
                /\ exported_list[i].video_id = videos[i].video_id
                /\ InSeq(<<i, "Fetching", videos[i].video_id>>, printed)
                /\ HasTalk(videos[i])
                     <=> ~InSeq(<<i, "Skipped", videos[i].video_id>>, printed)
           /\ talks_file = <<[series |-> "YC AI Startup School", talks |-> talks]>>

C4_Witness ==
    /\ mode = "batch" /\ pc = "done"
    /\ Len(videos) = 2
    /\ InSeq(<<1, "Error", videos[1].video_id>>, printed)
    /\ HasTalk(videos[2])
    /\ talks_file # <<>>

\* C5: talks is a subsequence of the video list: every talk belongs to a
\* video of the list, and talks come in the order of their videos, so no
\* video has two talks
C5_TalksPreservePlaylistOrder ==
    /\ \A k \in 1..Len(talks) :
         \E i \in 1..Len(videos) : videos[i].url = talks[k].source_url
    /\ \A k, l \in 1..Len(talks) :
         k < l =>
           \E i, j \in 1..Len(videos) :
             /\ i < j
             /\ videos[i].url = talks[k].source_url
             /\ videos[j].url = talks[l].source_url
    /\ \A i, j \in 1..Len(videos) :
         i # j => videos[i].video_id # videos[j].video_id

C5_Witness ==
    /\ pc = "done"
    /\ Len(videos) = 2 /\ Len(talks) = 2
    /\ talks[1].source_url = videos[1].url

StrategyUrls == <<SearchUrl, ChannelPlaylistsUrl, ChannelSearchUrl>>

InDiscovery == pc \in {"strategy1", "strategy2", "strategy3", "resolved"}

Yields(o) == o.status = "scanned" /\ o.candidates # <<>>

\* C6: the strategies run in the order search, channel playlists, channel
\* search; a strategy runs only if every earlier one failed or found no
\* candidate, the first that finds candidates supplies the result with no
\* further fetch, and null is returned only after all three found nothing
C6_FirstYieldingStrategyWins ==
    InDiscovery =>
      /\ Len(tried) <= 3
      /\ fetches = SubSeq(StrategyUrls, 1, Len(tried))
      /\ \A i \in 1..Len(tried) - 1 : ~Yields(tried[i])
      /\ pc = "strategy1" => Len(tried) = 0
      /\ pc = "strategy2" => Len(tried) = 1 /\ ~Yields(tried[1])
      /\ pc = "strategy3" => Len(tried) = 2 /\ ~Yields(tried[2])
      /\ pc = "resolved" =>
           /\ Len(tried) >= 1
           /\ IF Yields(tried[Len(tried)])
              THEN \E c \in 1..Len(tried[Len(tried)].candidates) :
                     resolved_playlist = tried[Len(tried)].candidates[c][1]
              ELSE Len(tried) = 3 /\ resolved_playlist = None

C6_Witness ==
    /\ pc = "resolved"
    /\ Len(tried) = 2
    /\ tried[1].status = "fetch failed"
    /\ Yields(tried[2])
    /\ resolved_playlist # None

\* the candidate the claim names: maximal score, first among the maximal
Best(cands) ==
    CHOOSE i \in 1..Len(cands) :
      /\ \A j \in 1..Len(cands) :
           _score_title_for_series(cands[j][2]) <= _score_title_for_series(cands[i][2])
      /\ \A j \in 1..(i - 1) :
           _score_title_for_series(cands[j][2]) < _score_title_for_series(cands[i][2])

HasTitle(cands, title) == \E i \in 1..Len(cands) : cands[i][2] = title

\* C7: the strategy that finds candidates returns the id of the candidate
\* of maximal score, the first discovered among those of maximal score;
\* "YC AI Startup School: Opening" wins over "Startup School Vol 2"
\* wherever the two stand in the list
C7_TopScoredFirstDiscovered ==
    (pc = "resolved" /\ Len(tried) >= 1 /\ Yields(tried[Len(tried)])) =>
      LET cands == tried[Len(tried)].candidates
      IN  /\ resolved_playlist = cands[Best(cands)][1]
          /\ ( /\ HasTitle(cands, "YC AI Startup School: Opening")
               /\ HasTitle(cands, "Startup School Vol 2") )
             => cands[Best(cands)][2] # "Startup School Vol 2"

C7_Witness ==
    /\ pc = "resolved"
    /\ Len(tried) >= 1
    /\ tried[Len(tried)].candidates =
         << <<"PL1", "Startup School Vol 2">>,
            <<"PL2", "YC AI Startup School: Opening">> >>
    /\ resolved_playlist = "PL2"

NoPlaylistSupplied == ~Truthy(Strip(IF playlist_id = None THEN "" ELSE playlist_id))

\* C8: without a playlist id, once the three strategies have found nothing
\* the run has failed with PlaylistDiscoveryError: each strategy fetched
\* once, no playlist page or transcript requested, no file written
C8_DiscoveryFailureIsFatal ==
    ( /\ mode = "batch"
      /\ NoPlaylistSupplied
      /\ ~InDiscovery /\ pc # "resolve"
      /\ ~Truthy(resolved_playlist) )
    => /\ pc = "failed"
       /\ error = "PlaylistDiscoveryError"
       /\ fetches = StrategyUrls
       /\ playlist_page = NoPage
       /\ attempts = <<>> /\ printed = <<>>
       /\ videos_file = <<>> /\ talks_file = <<>>

C8_Witness ==
    /\ mode = "batch" /\ playlist_id = None
    /\ pc = "failed" /\ error = "PlaylistDiscoveryError"
    /\ fetches = StrategyUrls

ValidNode(n) == n.isdict /\ n.videoId # "" /\ n.title # ""

\* position of the first usable entry of a video id on the page
FirstEntry(nodes, vid) ==
    CHOOSE i \in 1..Len(nodes) :
      /\ ValidNode(nodes[i]) /\ nodes[i].videoId = vid
      /\ \A j \in 1..(i - 1) : ~(ValidNode(nodes[j]) /\ nodes[j].videoId = vid)

\* C9: the list get_playlist_videos returns has no video id twice, holds
\* exactly the ids of the entries that have an id and a title, each with
\* the title of its first such entry, in the order of those first entries
C9_DeduplicatedFirstSeen ==
    pc = "limit" =>
      LET nodes == playlist_page.playlistVideoRenderer
      IN  /\ \A i, j \in 1..Len(videos) :
                i # j => videos[i].video_id # videos[j].video_id
          /\ \A n \in 1..Len(nodes) :
                ValidNode(nodes[n]) =>
                  \E k \in 1..Len(videos) : videos[k].video_id = nodes[n].videoId
          /\ \A k \in 1..Len(videos) :
                /\ \E n \in 1..Len(nodes) :
                      ValidNode(nodes[n]) /\ nodes[n].videoId = videos[k].video_id
                /\ videos[k].title = nodes[FirstEntry(nodes, videos[k].video_id)].title
                /\ videos[k].url = WatchUrl(videos[k].video_id)
          /\ \A k, l \in 1..Len(videos) :
                k < l => FirstEntry(nodes, videos[k].video_id)
                         < FirstEntry(nodes, videos[l].video_id)

C9_Witness ==
    /\ pc = "limit"
    /\ Len(playlist_page.playlistVideoRenderer) = 3
    /\ playlist_page.playlistVideoRenderer[1].videoId = "v1"
    /\ playlist_page.playlistVideoRenderer[1].title = "T1"
    /\ playlist_page.playlistVideoRenderer[2].videoId = "v2"
    /\ playlist_page.playlistVideoRenderer[3].videoId = "v1"
    /\ playlist_page.playlistVideoRenderer[3].title = "T2"
    /\ Len(videos) = 2
    /\ videos[1].title = "T1"

\* C10: a playlist page whose initial-data JSON is located and parses never
\* makes get_playlist_videos fail with the parse error; without usable
\* entries the result is the empty list
C10_ParseErrorOnlyWithoutData ==
    ( /\ playlist_page # NoPage /\ playlist_page # FetchFailed
      /\ playlist_page.located /\ playlist_page.parses
      /\ ~playlist_page.broken )
    => /\ error # PlaylistParseError
       /\ pc = "limit"
       /\ (\A n \in 1..Len(playlist_page.playlistVideoRenderer) :
              ~ValidNode(playlist_page.playlistVideoRenderer[n]))
          => videos = <<>>


-----------------------------------------------------------------------------
(* Helper functions called on their own *)

\* neither fetch_and_store nor fetch_single_transcript is running
PipelineIdle ==
    /\ mode = "none"
    /\ pc = "idle"
    /\ playlist_id = None
    /\ limit = 0
    /\ languages = <<>>
    /\ resolved_playlist = ""
    /\ videos = <<>>
    /\ idx = 0
    /\ cur = NoVideo
    /\ transcript = ""
    /\ xml_text = NoBody
    /\ date = ""
    /\ talks = <<>>
    /\ exported_list = <<>>
    /\ videos_file = <<>>
    /\ talks_file = <<>>
    /\ error = "none"
    /\ result = NoEntry
    /\ entry = NoEntry
    /\ printed = <<>>
    /\ fetches = <<>>
    /\ tried = <<>>
    /\ playlist_page = NoPage
    /\ attempts = <<>>
    /\ observed = FreshObserved

\* every string of at most n characters of the alphabet A
RECURSIVE StrsUpTo(_, _)
StrsUpTo(A, n) ==
    IF n = 0 THEN {""}
    ELSE LET shorter == StrsUpTo(A, n - 1)
         IN  shorter \cup {t \o c : t \in shorter, c \in A}

Min(S) == CHOOSE x \in S : \A y \in S : x <= y

-----------------------------------------------------------------------------
(* _extract_braced_json *)

MaxSource == 6      \* characters of the text handed to the brace scanner

\* a scan that stops at the first closing brace, whatever the depth
RECURSIVE BraceScanFlat(_, _, _, _)
BraceScanFlat(source, brace_start, j, depth) ==
    IF j > Len(source) THEN None
    ELSE IF CharAt(source, j) = "}" THEN SubSeq(source, brace_start, j)
    ELSE BraceScanFlat(source, brace_start, j + 1, depth)

\* for j in range(brace_start, len(source)), entered with the given depth
RECURSIVE BraceScan(_, _, _, _)
BraceScan(source, brace_start, j, depth) ==
    IF j > Len(source) THEN None
    ELSE LET c == CharAt(source, j)
             d == IF c = "{" THEN depth + 1
                  ELSE IF c = "}" THEN depth - 1 ELSE depth
         IN  IF c = "}" /\ d = 0 THEN SubSeq(source, brace_start, j)
             ELSE BraceScan(source, brace_start, j + 1, d)

_extract_braced_json(source, anchor) ==
    LET at == StrFind(source, anchor, 1)
    IN  IF at = 0 THEN None
        ELSE LET brace_start == StrFind(source, "{", at)
             IN  IF brace_start = 0 THEN None
                 ELSE BraceScan(source, brace_start, brace_start, 0)

ExtractAlphabet == {"p", "=", "{", "}"}
ExtractSources == StrsUpTo(ExtractAlphabet, MaxSource)
ExtractAnchors == {"p=", "{"}

ExtractInit ==
    /\ PipelineIdle
    /\ call \in {[fn |-> "_extract_braced_json", source |-> src, anchor |-> a] :
                   src \in ExtractSources, a \in ExtractAnchors}
    /\ frame = NoFrame
    /\ ret = NotRun

ExtractCall ==
    /\ call.fn = "_extract_braced_json"
    /\ ret = NotRun
    /\ ret' = _extract_braced_json(call.source, call.anchor)
    /\ UNCHANGED <<call, frame>>
    /\ UNCHANGED pipelineVars

ExtractNext == ExtractCall

ExtractSpec == ExtractInit /\ [][ExtractNext]_vars

\* positions at which sub occurs in s
Occurrences(s, sub) ==
    {i \in 1..(Len(s) - Len(sub) + 1) : SubSeq(s, i, i + Len(sub) - 1) = sub}

\* how many times the character c occurs in s[a..b]
CountChar(s, c, a, b) == Cardinality({k \in a..b : CharAt(s, k) = c})

\* closing braces of s at which the braces opened since position b are all
\* closed
BalancedEnds(s, b) ==
    {k \in b..Len(s) : /\ CharAt(s, k) = "}"
                       /\ CountChar(s, "{", b, k) = CountChar(s, "}", b, k)}

\* C11: _extract_braced_json returns the substring from the first "{" at or
\* after the first occurrence of the anchor to the first "}" at which the
\* braces opened since then are all closed, and None when the anchor is
\* absent, no "{" follows it, or the braces never close
C11_BalancedSubstring ==
    (call.fn = "_extract_braced_json" /\ ret # NotRun) =>
        LET src == call.source
            occ == Occurrences(src, call.anchor)
        IN  IF occ = {} THEN ret = None
            ELSE LET opens == {k \in Min(occ)..Len(src) : CharAt(src, k) = "{"}
                 IN  IF opens = {} THEN ret = None
                     ELSE LET ends == BalancedEnds(src, Min(opens))
                          IN  IF ends = {} THEN ret = None
                              ELSE ret = SubSeq(src, Min(opens), Min(ends))

\* a nested object was extracted and text after it left out
C11_Witness ==
    /\ call.fn = "_extract_braced_json"
    /\ ret \notin {NotRun, None}
    /\ CountChar(ret, "{", 1, Len(ret)) = 2
    /\ Len(ret) < Len(call.source) - Len(call.anchor)

-----------------------------------------------------------------------------
(* get_yt_initial_player_response *)

MaxChunks == 4      \* pieces a watch page is put together from

\* the character of s at position i, "" outside s
At(s, i) == IF i \in 1..Len(s) THEN SubSeq(s, i, i) ELSE ""

JsonFail == [next |-> 0, keys |-> {}]

\* a JSON string without escapes starting at i: the position after it, or 0
JsonString(s, i) ==
    IF At(s, i) # "\"" THEN 0
    ELSE LET close == StrFind(s, "\"", i + 1)
         IN  IF close = 0 THEN 0 ELSE close + 1

\* json.loads restricted to what the pages of the model embed: objects whose
\* values are objects or strings, written without whitespace. JsonObject
\* gives the position after the object starting at i and its own keys
RECURSIVE JsonObject(_, _)
RECURSIVE JsonMembers(_, _, _)
JsonObject(s, i) ==
    IF At(s, i) # "{" THEN JsonFail
    ELSE IF At(s, i + 1) = "}" THEN [next |-> i + 2, keys |-> {}]
    ELSE JsonMembers(s, i + 1, {})

JsonMembers(s, i, keys) ==
    LET colon == JsonString(s, i)
    IN  IF colon = 0 \/ At(s, colon) # ":" THEN JsonFail
        ELSE LET after == IF At(s, colon + 1) = "{"
                          THEN JsonObject(s, colon + 1).next
                          ELSE JsonString(s, colon + 1)
                 keys1 == keys \cup {SubSeq(s, i + 1, colon - 2)}
             IN  IF after = 0 THEN JsonFail
                 ELSE IF At(s, after) = "," THEN JsonMembers(s, after + 1, keys1)
                 ELSE IF At(s, after) = "}" THEN [next |-> after + 1, keys |-> keys1]
                 ELSE JsonFail

\* json.loads(js): ok is FALSE for json.JSONDecodeError
json_loads(js) ==
    LET o == JsonObject(js, 1)
    IN  IF o.next = Len(js) + 1 THEN [ok |-> TRUE, keys |-> o.keys]
        ELSE [ok |-> FALSE, keys |-> {}]

PlayerResponsePatterns ==
    << "ytInitialPlayerResponse = ",
       "var ytInitialPlayerResponse = ",
       "\"ytInitialPlayerResponse\"\\s*:\\s*" >>

\* any object that parses is returned
AcceptsAnyObject(js) == Truthy(js) /\ json_loads(js).ok

\* if js: obj = json.loads(js); isinstance(obj, dict) and
\* ('videoDetails' in obj or 'captions' in obj)
AcceptsPlayerResponse(js) ==
    /\ Truthy(js)
    /\ json_loads(js).ok
    /\ json_loads(js).keys \cap {"videoDetails", "captions"} # {}

PageChunks ==
    { "ytInitialPlayerResponse = ",
      "var ",
      "\"ytInitialPlayerResponse\"\\s*:\\s*",
      "{\"videoDetails\":{}}",
      "{\"captions\":{}}",
      "{\"responseContext\":{\"captions\":{}}}",
      "{\"captions\":\"}\"}" }

RECURSIVE Concat(_)
Concat(chunks) ==
    IF chunks = <<>> THEN "" ELSE Head(chunks) \o Concat(Tail(chunks))

HtmlPages == {Concat(q) : q \in SeqsUpTo(PageChunks, MaxChunks)}

PlayerResponseInit ==
    /\ PipelineIdle
    /\ call \in {[fn |-> "get_yt_initial_player_response", html_text |-> h] :
                   h \in HtmlPages}
    /\ frame = [pc |-> "scan", p |-> 1, start |-> 1]
    /\ ret = NotRun

Scanning == call.fn = "get_yt_initial_player_response" /\ frame.pc = "scan"

\* idx = html_text.find(p, start)
ScanIdx == StrFind(call.html_text, PlayerResponsePatterns[frame.p], frame.start)

\* js = _extract_braced_json(html_text[idx:], p) for the occurrence of the
\* anchor pat at position i of h
ObjectAt(h, pat, i) == _extract_braced_json(SubSeq(h, i, Len(h)), pat)

\* idx == -1: break; the next pattern, or return None after the last
BreakPattern ==
    /\ Scanning
    /\ ScanIdx = 0
    /\ IF frame.p < Len(PlayerResponsePatterns)
       THEN /\ frame' = [pc |-> "scan", p |-> frame.p + 1, start |-> 1]
            /\ UNCHANGED ret
       ELSE /\ frame' = [frame EXCEPT !.pc = "done"]
            /\ ret' = None
    /\ UNCHANGED call
    /\ UNCHANGED pipelineVars

\* js = _extract_braced_json(html_text[idx:], p)
ScanJs == ObjectAt(call.html_text, PlayerResponsePatterns[frame.p], ScanIdx)

\* the occurrence does not qualify: start = idx + len(p)
SkipOccurrence ==
    /\ Scanning
    /\ ScanIdx # 0
    /\ ~AcceptsPlayerResponse(ScanJs)
    /\ frame' = [frame EXCEPT
                   !.start = ScanIdx + Len(PlayerResponsePatterns[frame.p])]
    /\ UNCHANGED <<call, ret>>
    /\ UNCHANGED pipelineVars

\* return obj
ReturnObject ==
    /\ Scanning
    /\ ScanIdx # 0
    /\ AcceptsPlayerResponse(ScanJs)
    /\ ret' = ScanJs
    /\ frame' = [frame EXCEPT !.pc = "done"]
    /\ UNCHANGED call
    /\ UNCHANGED pipelineVars

PlayerResponseNext ==
    \/ BreakPattern
    \/ SkipOccurrence
    \/ ReturnObject

PlayerResponseSpec == PlayerResponseInit /\ [][PlayerResponseNext]_vars

\* js parses and has a videoDetails or a captions key of its own
Qualifies(js) ==
    /\ js # None
    /\ json_loads(js).ok
    /\ \/ "videoDetails" \in json_loads(js).keys
       \/ "captions" \in json_loads(js).keys

\* occurrences of the k-th anchor whose object qualifies
Hits(h, k) ==
    {i \in Occurrences(h, PlayerResponsePatterns[k]) :
        Qualifies(ObjectAt(h, PlayerResponsePatterns[k], i))}

\* the object at the first qualifying occurrence of the first anchor that
\* has one
FirstQualifying(h) ==
    LET with == {k \in 1..Len(PlayerResponsePatterns) : Hits(h, k) # {}}
    IN  IF with = {} THEN None
        ELSE ObjectAt(h, PlayerResponsePatterns[Min(with)], Min(Hits(h, Min(with))))

\* the object at the qualifying occurrence that comes first in the page,
\* whichever anchor it is an occurrence of
FirstInDocument(h) ==
    LET all == {<<i, k>> \in (1..Len(h)) \X (1..Len(PlayerResponsePatterns)) :
                   i \in Hits(h, k)}
    IN  IF all = {} THEN None
        ELSE LET first == CHOOSE a \in all : \A b \in all : a[1] <= b[1]
             IN  ObjectAt(h, PlayerResponsePatterns[first[2]], first[1])

ScanDone == call.fn = "get_yt_initial_player_response" /\ frame.pc = "done"

\* how much of the scan is left at most: the anchors not yet tried, each
\* over the whole page, and the rest of the page for the current anchor
ScanRank ==
    (Len(PlayerResponsePatterns) - frame.p) * (Len(call.html_text) + 1)
        + (Len(call.html_text) + 1 - frame.start)

\* C12: get_yt_initial_player_response scans the occurrences of an anchor in
\* document order and returns the first embedded object that parses and has
\* a videoDetails or captions key, skipping the others, and None when no
\* occurrence qualifies (on a page without the text of the third anchor this
\* is the first qualifying object of the page); within an anchor the scan
\* position strictly advances, and every step of the loop uses up some of
\* the finite page left to scan, so the scan ends
C12_FirstQualifyingObject ==
    /\ [](ScanDone =>
            /\ ret = FirstQualifying(call.html_text)
            /\ Occurrences(call.html_text, PlayerResponsePatterns[3]) = {}
                  => ret = FirstInDocument(call.html_text))
    /\ [](Scanning => ScanRank >= 0)
    /\ [][Scanning =>
            /\ ScanDone' \/ ScanRank' < ScanRank
            /\ (Scanning' /\ frame'.p = frame.p) => frame'.start > frame.start]_vars

\* an object was returned after an earlier occurrence had been skipped
C12_Witness ==
    /\ ScanDone
    /\ ret \notin {None, NotRun}
    /\ frame.start > 1
    /\ frame.p = 1

-----------------------------------------------------------------------------
(* parse_vtt_to_paragraphs of ebook_pipeline/subtitles.py.  A subtitle     *)
(* file is the sequence of its lines, as splitlines() gives them.          *)

IsDigit(c) == c \in {"0", "1", "2", "3", "4", "5", "6", "7", "8", "9"}

\* \d{2}:\d{2}:\d{2}\.\d{3} stands at k in s
TimeStampAt(s, k) ==
    /\ k >= 1 /\ k + 11 <= Len(s)
    /\ \A d \in {0, 1, 3, 4, 6, 7, 9, 10, 11} : IsDigit(CharAt(s, k + d))
    /\ CharAt(s, k + 2) = ":" /\ CharAt(s, k + 5) = ":" /\ CharAt(s, k + 8) = "."

\* re.match(r"^\d{2}:\d{2}:\d{2}\.\d{3} --> ", ln)
IsTimeRange(ln) ==
    TimeStampAt(ln, 1) /\ StartsWith(SubSeq(ln, 13, Len(ln)), " --> ")

\* re.match(r"^\d+$", ln)
IsCueId(ln) == ln # "" /\ \A k \in 1..Len(ln) : IsDigit(CharAt(ln, k))

\* re.match(r"^(Kind|Language|Style|Region):", ln, flags=re.IGNORECASE)
IsHeaderField(ln) ==
    \E w \in {"kind:", "language:", "style:", "region:"} :
        Len(w) <= Len(ln) /\ Lower(SubSeq(ln, 1, Len(w))) = w

\* "<c>" in ln or re.search(r"<\d{2}:\d{2}:\d{2}\.\d{3}>", ln)
HasInlineTiming(ln) ==
    \/ Contains(ln, "<c>")
    \/ \E k \in 1..Len(ln) :
          /\ CharAt(ln, k) = "<"
          /\ TimeStampAt(ln, k + 1)
          /\ k + 13 <= Len(ln) /\ CharAt(ln, k + 13) = ">"

\* the lines the first loop passes over
Skipped(ln) ==
    \/ StartsWith(ln, "WEBVTT") \/ StartsWith(ln, "NOTE")
    \/ IsTimeRange(ln)
    \/ IsCueId(ln)
    \/ IsHeaderField(ln)
    \/ HasInlineTiming(ln)

\* re.sub(r"<[^>]+>", "", s): "<>" is no tag, a "<" that is never closed
\* is none either
RECURSIVE StripTags(_)
StripTags(s) ==
    LET open == StrFind(s, "<", 1)
        close == IF open = 0 THEN 0 ELSE StrFind(s, ">", open + 1)
    IN  IF open = 0 \/ close = 0 THEN s
        ELSE IF close = open + 1
        THEN SubSeq(s, 1, close) \o StripTags(SubSeq(s, close + 1, Len(s)))
        ELSE SubSeq(s, 1, open - 1) \o StripTags(SubSeq(s, close + 1, Len(s)))

NoiseWords == {"music", "applause", "laughter", "inaudible"}

\* the index of the "]" ending a [music ...] tag that begins at k, 0 if
\* none begins there
NoiseEnd(s, k) ==
    IF /\ CharAt(s, k) = "["
       /\ \E w \in NoiseWords :
             k + Len(w) <= Len(s) /\ Lower(SubSeq(s, k + 1, k + Len(w))) = w
    THEN StrFind(s, "]", k + 1)
    ELSE 0

\* re.sub(r"\[(music|applause|laughter|inaudible)[^\]]*\]", "", s,
\*        flags=re.IGNORECASE)
RECURSIVE StripNoise(_)
StripNoise(s) ==
    LET starts == {k \in 1..Len(s) : NoiseEnd(s, k) # 0}
    IN  IF starts = {} THEN s
        ELSE LET k == Min(starts)
             IN  SubSeq(s, 1, k - 1)
                 \o StripNoise(SubSeq(s, NoiseEnd(s, k) + 1, Len(s)))

\* trimmed: the caption text of a line that is not passed over
VttText(ln) == Strip(StripNoise(StripTags(ln)))

\* the first loop: text_lines after the lines still to read
RECURSIVE VttTextLines(_, _)
VttTextLines(lines, text_lines) ==
    IF lines = <<>> THEN text_lines
    ELSE LET ln == Head(lines)
             trimmed == VttText(ln)
         IN  VttTextLines(Tail(lines),
                IF ln = "" THEN Append(text_lines, "")
                ELSE IF Skipped(ln) THEN text_lines
                ELSE IF /\ text_lines # <<>> /\ trimmed # ""
                        /\ text_lines[Len(text_lines)] = trimmed
                THEN text_lines
                ELSE Append(text_lines, trimmed))

\* one iteration of the second loop, for the text line ln
VttStep(buf, seen_in_para, paras, ln) ==
    LET frag == Strip(ln)
        last == buf[Len(buf)]
        keep == [buf |-> buf, seen_in_para |-> seen_in_para, paras |-> paras]
        joined == Join(" ", Append(buf, frag))
    IN  IF frag = "" THEN keep
        ELSE IF buf # <<>> /\ last = frag THEN keep
        ELSE IF buf # <<>> /\ StartsWith(frag, last) /\ Len(frag) > Len(last) + 2
        THEN [keep EXCEPT !.buf = [buf EXCEPT ![Len(buf)] = frag]]
        ELSE IF buf # <<>> /\ StartsWith(last, frag) /\ Len(last) > Len(frag) + 2
        THEN keep
        ELSE IF frag \in seen_in_para THEN keep
        ELSE IF Len(joined) > MaxParaLen
        THEN [buf |-> <<>>, seen_in_para |-> {}, paras |-> Append(paras, joined)]
        ELSE [buf |-> Append(buf, frag),
              seen_in_para |-> seen_in_para \cup {frag}, paras |-> paras]

-----------------------------------------------------------------------------
(* The caption normalisers called on their own *)

MaxNodes == 3       \* <text> nodes of a payload, segments of a transcript
MaxLines == 4       \* lines of a subtitle file after its header

\* s repeated n times
RECURSIVE Rep(_, _)
Rep(s, n) ==
    IF n = 0 THEN ""
    ELSE IF n = 1 THEN s
    ELSE Rep(s, n \div 2) \o Rep(s, n - n \div 2)

\* a caption as long as a paragraph may get before it is broken
LongText == Rep("z", MaxParaLen)

\* captions as (text, start, duration), times in tenths of a second
TimedTexts ==
    { <<"ab", 0, 20>>,
      <<"x &amp;\n  y", 20, 20>>,
      <<LongText, 20, 20>>,
      <<Rep("z", MaxParaLen - 3), 0, 20>>,
      <<"cd", 65, 5>>,
      <<"ef", 66, 5>>,
      <<"  ", 100, 0>>,
      <<"gh", 200, 10>> }

XmlNodes == {Node(t[1], t[2], t[3]) : t \in TimedTexts}
Segments == {Seg(t[1], t[2], t[3]) : t \in TimedTexts}

XmlBodies ==
    {HtmlBody, BadAttrBody}
        \cup {Body(FALSE, TRUE, TRUE, ns) : ns \in SeqsUpTo(XmlNodes, MaxNodes)}

\* how a subtitle file begins, up to the time range of its first cue
VttHeader ==
    <<"WEBVTT", "Kind: captions", "Language: en", "", "1",
      "00:00:00.000 --> 00:00:01.000">>

\* the lines a subtitle file goes on with
\* a caption that fills a paragraph with "Hello" after it
NearCapText == Rep("z", MaxParaLen - 6)

VttLines ==
    { "", "00:00:01.000 --> 00:00:02.000", "Hello", "Hello world",
      "<i>ab</i> [Music]", NearCapText }

VttFiles == {VttHeader \o ls : ls \in SeqsUpTo(VttLines, MaxLines)}

NormaliseCalls ==
    {[fn |-> "xml_to_paragraphs", xml_text |-> b] : b \in XmlBodies}
        \cup {[fn |-> "fetch_transcript_with_library", transcript |-> t] :
                t \in SeqsUpTo(Segments, MaxNodes)}
        \cup {[fn |-> "parse_vtt_to_paragraphs", lines |-> f] : f \in VttFiles}

NormaliseInit ==
    /\ PipelineIdle
    /\ call \in NormaliseCalls
    /\ frame = [pc |-> "start"]
    /\ ret = NotRun

\* the locals of a merge loop before its first iteration
MergeFrame(lines, last_end) ==
    [pc |-> "merge", lines |-> lines, i |-> 1, last_end |-> last_end,
     buf |-> <<>>, paras |-> <<>>, closed_by |-> <<>>]

\* what closed the paragraphs the iteration for txt added: "" for a silence
\* gap, txt for the length of the paragraph with txt in it
ClosedBy(paras, st, txt) ==
    LET added == Len(st.paras) - Len(paras)
    IN  IF added = 2 THEN <<"", txt>>
        ELSE IF added = 1 THEN (IF st.buf = <<>> THEN <<txt>> ELSE <<"">>)
        ELSE <<>>

\* the frame after the iteration that led from frame to st
AfterIteration(st, txt) ==
    [frame EXCEPT !.i = @ + 1, !.last_end = st.last_end, !.buf = st.buf,
                  !.paras = st.paras,
                  !.closed_by = @ \o ClosedBy(frame.paras, st, txt)]

\* xml_to_paragraphs up to its merge loop
XmlStart ==
    /\ call.fn = "xml_to_paragraphs" /\ frame.pc = "start"
    /\ LET body == call.xml_text
       IN  IF ~body.wellformed                       \* ET.ParseError
           THEN ret' = "" /\ frame' = [pc |-> "done"]
           ELSE IF XmlRaises(body)                   \* ValueError of float()
           THEN frame' = [pc |-> "raised"] /\ UNCHANGED ret
           ELSE LET lines == SortByStart(XmlLines(body.nodes))
                IN  IF lines = <<>>
                    THEN ret' = "" /\ frame' = [pc |-> "done"]
                    ELSE /\ frame' = MergeFrame(lines, lines[1][2])
                         /\ UNCHANGED ret
    /\ UNCHANGED call
    /\ UNCHANGED pipelineVars

\* one iteration of the merge loop of xml_to_paragraphs
XmlLine ==
    /\ call.fn = "xml_to_paragraphs" /\ frame.pc = "merge"
    /\ frame.i <= Len(frame.lines)
    /\ LET l == frame.lines[frame.i]
           st == MergeStep(frame.last_end, frame.buf, frame.paras, l[1], l[2], l[3])
       IN  frame' = AfterIteration(st, l[3])
    /\ UNCHANGED <<call, ret>>
    /\ UNCHANGED pipelineVars

\* fetch_transcript_with_library from "if not transcript" to its merge loop
LibStart ==
    /\ call.fn = "fetch_transcript_with_library" /\ frame.pc = "start"
    /\ IF call.transcript = <<>>
       THEN ret' = None /\ frame' = [pc |-> "done"]
       ELSE frame' = MergeFrame(call.transcript, 0) /\ UNCHANGED ret
    /\ UNCHANGED call
    /\ UNCHANGED pipelineVars

\* one iteration of the merge loop of fetch_transcript_with_library
LibItem ==
    /\ call.fn = "fetch_transcript_with_library" /\ frame.pc = "merge"
    /\ frame.i <= Len(frame.lines)
    /\ LET item == frame.lines[frame.i]
           txt == SegText(item)
           st == MergeStep(frame.last_end, frame.buf, frame.paras,
                           item.start, item.start + item.duration, txt)
       IN  IF item.bad THEN frame' = [pc |-> "raised"]
           ELSE IF txt = "" THEN frame' = [frame EXCEPT !.i = @ + 1]
           ELSE frame' = AfterIteration(st, txt)
    /\ UNCHANGED <<call, ret>>
    /\ UNCHANGED pipelineVars

\* after the loop: flush buf, clean the paragraphs up, join and return them
FinishParagraphs ==
    /\ frame.pc = "merge"
    /\ frame.i > Len(frame.lines)
    /\ LET paras == FlushRest(frame.buf, frame.paras)
       IN  /\ ret' = Render(Cleanup(paras))
           /\ frame' = [frame EXCEPT
                          !.pc = "done", !.buf = <<>>, !.paras = paras,
                          !.closed_by = IF frame.buf # <<>> THEN Append(@, "") ELSE @]
    /\ UNCHANGED call
    /\ UNCHANGED pipelineVars

\* parse_vtt_to_paragraphs up to its second loop
VttStart ==
    /\ call.fn = "parse_vtt_to_paragraphs" /\ frame.pc = "start"
    /\ frame' = [pc |-> "vtt", text_lines |-> VttTextLines(call.lines, <<>>),
                 i |-> 1, buf |-> <<>>, seen_in_para |-> {}, paras |-> <<>>]
    /\ UNCHANGED <<call, ret>>
    /\ UNCHANGED pipelineVars

\* one iteration of the second loop of parse_vtt_to_paragraphs
VttLine ==
    /\ call.fn = "parse_vtt_to_paragraphs" /\ frame.pc = "vtt"
    /\ frame.i <= Len(frame.text_lines)
    /\ LET st == VttStep(frame.buf, frame.seen_in_para, frame.paras,
                         frame.text_lines[frame.i])
       IN  frame' = [frame EXCEPT !.i = @ + 1, !.buf = st.buf,
                                  !.seen_in_para = st.seen_in_para,
                                  !.paras = st.paras]
    /\ UNCHANGED <<call, ret>>
    /\ UNCHANGED pipelineVars

\* parse_vtt_to_paragraphs after its second loop
VttFinish ==
    /\ call.fn = "parse_vtt_to_paragraphs" /\ frame.pc = "vtt"
    /\ frame.i > Len(frame.text_lines)
    /\ LET paras == FlushRest(frame.buf, frame.paras)
       IN  /\ ret' = Render(Cleanup(paras))
           /\ frame' = [frame EXCEPT !.pc = "done", !.paras = paras]
    /\ UNCHANGED call
    /\ UNCHANGED pipelineVars

NormaliseNext ==
    \/ XmlStart
    \/ XmlLine
    \/ LibStart
    \/ LibItem
    \/ FinishParagraphs
    \/ VttStart
    \/ VttLine
    \/ VttFinish

NormaliseSpec == NormaliseInit /\ [][NormaliseNext]_vars

\* the pieces of s between the occurrences of sep
RECURSIVE Split(_, _)
Split(s, sep) ==
    LET at == StrFind(s, sep, 1)
    IN  IF at = 0 THEN <<s>>
        ELSE <<SubSeq(s, 1, at - 1)>> \o Split(SubSeq(s, at + Len(sep), Len(s)), sep)

\* the paragraphs of a text that ends with a newline: what stands between
\* its blank lines
Paragraphs(text) ==
    IF Len(text) <= 1 THEN <<>>
    ELSE Split(SubSeq(text, 1, Len(text) - 1), "\n\n")

XmlDone == call.fn = "xml_to_paragraphs" /\ frame.pc = "done"

\* the text of a node as read: entities resolved, newlines made spaces,
\* surrounding whitespace removed
TextOf(node) == Strip(Replace(HtmlUnescape(node.text), "\n", " "))

\* the nodes of the payload that carry text, by position in the document
Spoken(nodes) == {k \in 1..Len(nodes) : TextOf(nodes[k]) # ""}

\* node a comes before node b in start-time order (document order at a tie)
Earlier(nodes, a, b) ==
    \/ nodes[a].start < nodes[b].start
    \/ nodes[a].start = nodes[b].start /\ a < b

\* the nodes that carry text, in start-time order
ByTime(nodes) ==
    LET S == Spoken(nodes)
    IN  [k \in 1..Cardinality(S) |->
            CHOOSE a \in S : Cardinality({b \in S : Earlier(nodes, b, a)}) = k - 1]

\* the silence between node a and node b
Silence(nodes, a, b) == nodes[b].start - (nodes[a].start + nodes[a].dur)

\* the texts of the nodes in start-time order
TextsByTime(nodes) == [k \in DOMAIN ByTime(nodes) |-> TextOf(nodes[ByTime(nodes)[k]])]

\* valid timed XML whose nodes with text do not overlap, have no gap above
\* 2.5 s and make up at most 800 characters when joined
OneParagraphInput(body) ==
    /\ body.wellformed /\ ~XmlRaises(body)
    /\ Spoken(body.nodes) # {}
    /\ LET ord == ByTime(body.nodes)
       IN  \A k \in 1..(Len(ord) - 1) :
              /\ Silence(body.nodes, ord[k], ord[k + 1]) >= 0
              /\ Silence(body.nodes, ord[k], ord[k + 1]) <= GapLimit
    /\ Len(Join(" ", TextsByTime(body.nodes))) <= MaxParaLen

\* C13: for valid timed XML with N >= 1 non-overlapping nodes that carry
\* text, no gap above 2.5 s between consecutive nodes and at most 800
\* characters in all, xml_to_paragraphs returns exactly one paragraph: the N
\* texts joined by single spaces in start-time order, whatever the order of
\* the nodes in the document
C13_OneParagraphInTimeOrder ==
    (XmlDone /\ OneParagraphInput(call.xml_text)) =>
        ret = CollapseWs(Join(" ", TextsByTime(call.xml_text.nodes))) \o "\n"

\* three nodes with text, out of time order in the document, made one
\* paragraph
C13_Witness ==
    /\ XmlDone
    /\ OneParagraphInput(call.xml_text)
    /\ Cardinality(Spoken(call.xml_text.nodes)) = 3
    /\ call.xml_text.nodes[1].start > call.xml_text.nodes[2].start

\* pairs of nodes with text, consecutive in start-time order, with more
\* than 2.5 s of silence between them
GapPairs(nodes) ==
    LET ord == ByTime(nodes)
    IN  {<<ord[k], ord[k + 1]>> : k \in {j \in 1..(Len(ord) - 1) :
                                    Silence(nodes, ord[j], ord[j + 1]) > GapLimit}}

\* the text of a node as it stands in the output
Said(node) == CollapseWs(TextOf(node))

\* C14: when the start of a node exceeds the end of the node before it in
\* start-time order by more than 2.5 s (nodes that carry text),
\* xml_to_paragraphs returns at least two paragraphs, and the text of the
\* earlier node ends one paragraph and the text of the later node begins
\* the next
C14_SplitAtGap ==
    (XmlDone /\ call.xml_text.wellformed) =>
        LET nodes == call.xml_text.nodes
            out == Paragraphs(ret)
        IN  \A pair \in GapPairs(nodes) :
               /\ Len(out) >= 2
               /\ \E k \in 1..(Len(out) - 1) :
                     /\ EndsWith(out[k], Said(nodes[pair[1]]))
                     /\ StartsWith(out[k + 1], Said(nodes[pair[2]]))

\* a payload with a gap between its second and third node in time order,
\* listed out of order
C14_Witness ==
    /\ XmlDone /\ call.xml_text.wellformed
    /\ GapPairs(call.xml_text.nodes) # {}
    /\ Cardinality(Spoken(call.xml_text.nodes)) = 3
    /\ call.xml_text.nodes[1].start > call.xml_text.nodes[3].start
    /\ Len(Paragraphs(ret)) = 2

Merging ==
    /\ call.fn \in {"xml_to_paragraphs", "fetch_transcript_with_library"}
    /\ frame.pc \in {"merge", "done"}
    /\ "paras" \in DOMAIN frame

\* the most a paragraph may measure given what closed it: 800 characters,
\* and for one closed by its length as many more as the fragment that was
\* added last measures plus slack
Cap(closer, slack) ==
    IF closer = "" THEN MaxParaLen ELSE MaxParaLen + Len(closer) + slack

\* no paragraph closed so far, nor any paragraph of the text returned,
\* exceeds its cap
EmittedWithinCap(slack) ==
    /\ \A k \in 1..Len(frame.paras) :
          Len(frame.paras[k]) <= Cap(frame.closed_by[k], slack)
    /\ frame.pc = "done" =>
          LET out == Paragraphs(ret)
          IN  /\ Len(out) = Len(frame.paras)
              /\ \A k \in 1..Len(out) : Len(out[k]) <= Cap(frame.closed_by[k], slack)

\* C15 as stated: in the timed-XML and the timed-segment normaliser no
\* emitted paragraph is longer than 800 characters plus the length of the
\* fragment whose addition triggered the flush
C15_WithinCapPlusFragment == Merging => EmittedWithinCap(0)

\* C15 amended: no emitted paragraph is longer than 800 characters plus the
\* space that joins the fragment on plus the length of the fragment whose
\* addition triggered the flush
C15_WithinCapPlusSpaceAndFragment == Merging => EmittedWithinCap(1)

\* a paragraph of 800 characters, a space and the fragment that closed it
C15_Witness ==
    /\ Merging /\ frame.pc = "done"
    /\ \E k \in 1..Len(Paragraphs(ret)) :
          /\ frame.closed_by[k] # ""
          /\ Len(Paragraphs(ret)[k]) = MaxParaLen + 1 + Len(frame.closed_by[k])

-----------------------------------------------------------------------------
(* The text the normalisers return *)

\* a normaliser returned a text (fetch_transcript_with_library returns None
\* before its segment path when it has no transcript)
NormaliserDone == frame.pc = "done" /\ ret # None

\* p is a paragraph: not empty, no whitespace but single spaces between
\* other characters
IsParagraph(p) ==
    /\ p # ""
    /\ \A k \in 1..Len(p) :
          IsSpace(p, k) =>
             /\ CharAt(p, k) = " "
             /\ 1 < k /\ k < Len(p)
             /\ ~IsSpace(p, k + 1)

\* text is paragraphs joined by one blank line, with a trailing newline
WellShaped(text) ==
    /\ EndsWith(text, "\n")
    /\ text = Render(Paragraphs(text))
    /\ \A k \in 1..Len(Paragraphs(text)) : IsParagraph(Paragraphs(text)[k])

\* the payload does not parse, or none of its nodes carries text
NothingToRead(body) == ~body.wellformed \/ Spoken(body.nodes) = {}

-----------------------------------------------------------------------------
(* Repeated and rolled-up captions in parse_vtt_to_paragraphs *)

VttDone == call.fn = "parse_vtt_to_paragraphs" /\ frame.pc = "done"

\* line k of the file carries caption text
IsCaption(lines, k) ==
    lines[k] # "" /\ ~Skipped(lines[k]) /\ VttText(lines[k]) # ""

\* lines a and b carry the same caption text in two consecutive cues: only
\* blank, cue-id and time-range lines stand between them
SameInConsecutiveCues(lines, a, b) ==
    /\ a < b
    /\ IsCaption(lines, a) /\ IsCaption(lines, b)
    /\ VttText(lines[a]) = VttText(lines[b])
    /\ \A c \in (a + 1)..(b - 1) :
          lines[c] = "" \/ IsCueId(lines[c]) \/ IsTimeRange(lines[c])

\* no line of the file but a and b has the text t in its caption
OnlyIn(lines, t, a, b) ==
    \A c \in 1..Len(lines) :
        (c \notin {a, b} /\ IsCaption(lines, c)) => ~Contains(VttText(lines[c]), t)

\* C17 as stated: when the same caption line occurs in two consecutive cues
\* (directly adjacent or separated only by blank, cue-id and time-range
\* lines) and nowhere else in the file, the text parse_vtt_to_paragraphs
\* returns contains that line once
C17_ConsecutiveDuplicateOnce ==
    VttDone =>
        \A a, b \in 1..Len(call.lines) :
            (/\ SameInConsecutiveCues(call.lines, a, b)
             /\ OnlyIn(call.lines, VttText(call.lines[a]), a, b))
                => Cardinality(Occurrences(ret, VttText(call.lines[a]))) = 1

\* the second loop of parse_vtt_to_paragraphs is at a text line with text
AtFragment ==
    /\ call.fn = "parse_vtt_to_paragraphs" /\ frame.pc = "vtt"
    /\ frame.i <= Len(frame.text_lines)
    /\ Strip(frame.text_lines[frame.i]) # ""

Frag == Strip(frame.text_lines[frame.i])

\* the text lines with text before the one the loop is at
FragmentsBefore ==
    {k \in 1..(frame.i - 1) : Strip(frame.text_lines[k]) # ""}

\* the fragment last put into a paragraph: the last of the buffer, or, when
\* the buffer has just been flushed, the fragment that made it overflow
PreviousFragment ==
    IF frame.buf # <<>> THEN frame.buf[Len(frame.buf)]
    ELSE Strip(frame.text_lines[
            CHOOSE k \in FragmentsBefore : \A j \in FragmentsBefore : j <= k])

\* x starts with y and is at least 3 characters longer
Extends(x, y) == StartsWith(x, y) /\ Len(x) >= Len(y) + 3

\* C18 as stated: a fragment that starts with the previous fragment and is
\* at least 3 characters longer takes its place, so that only the longer
\* one is emitted, and a fragment that is a prefix of the previous fragment
\* and at least 3 characters shorter is dropped
C18_RollUpReplacesPrefixDropped ==
    [][(AtFragment /\ FragmentsBefore # {}) =>
          /\ Extends(Frag, PreviousFragment) =>
                /\ frame.buf # <<>>
                /\ frame'.buf = [frame.buf EXCEPT ![Len(frame.buf)] = Frag]
                /\ frame'.paras = frame.paras
          /\ Extends(PreviousFragment, Frag) =>
                /\ frame'.buf = frame.buf
                /\ frame'.paras = frame.paras]_vars

\* C19 as stated: between two flushes the fragments held in the paragraph
\* buffer of parse_vtt_to_paragraphs are pairwise distinct
C19_BufferFragmentsDistinct ==
    (call.fn = "parse_vtt_to_paragraphs" /\ frame.pc = "vtt") =>
        \A a, b \in 1..Len(frame.buf) :
            a # b => frame.buf[a] # frame.buf[b]

-----------------------------------------------------------------------------
(* looks_like_person of ebook_pipeline/youtube.py.  The strings of this    *)
(* module are ASCII: the en dash U+2013 is written "~" and the em dash     *)
(* U+2014 is written "^".                                                  *)

MaxTokens == 3      \* tokens of a name put together from NameTokens

EnDash == "~"
EmDash == "^"

\* str.isupper of one letter
IsUpper(c) == c \in DOMAIN LowerOf

\* str.split(): the pieces of s between its runs of whitespace
RECURSIVE SplitWs(_)
SplitWs(s) ==
    LET t == LStrip(s)
        spaces == {k \in 1..Len(t) : IsSpace(t, k)}
    IN  IF t = "" THEN <<>>
        ELSE IF spaces = {} THEN <<t>>
        ELSE <<SubSeq(t, 1, Min(spaces) - 1)>>
             \o SplitWs(SubSeq(t, Min(spaces), Len(t)))

\* name.replace(en dash, "-").replace(em dash, "-")
NormaliseDashes(name) == Replace(Replace(name, EnDash, "-"), EmDash, "-")

\* ok = all(p and p[0].isupper() for p in parts if p)
TokenOk(tok) ==
    LET parts == Split(tok, "-")
    IN  \A k \in 1..Len(parts) :
            parts[k] # "" => (parts[k] # "" /\ IsUpper(CharAt(parts[k], 1)))

RequiredNoFloor(n) == n - 1

\* max(1, len(tokens) - 1)
Required(n) == IF n - 1 > 1 THEN n - 1 ELSE 1

NameTokens == {"Jared", "J.", "how", "Jean-Luc", "Jean~luc", "A^B", "-"}

\* names of up to MaxTokens tokens, names of 6 and of 7 tokens, the names
\* the documentation gives, and names with other whitespace
Names ==
    {Join(" ", ts) : ts \in SeqsUpTo(NameTokens, MaxTokens)}
        \cup {Join(" ", ts) : ts \in SeqsOfLen({"Al", "of"}, 6)}
        \cup {Join(" ", ts) : ts \in SeqsOfLen({"Al", "of"}, 7)}
        \cup {"Jared Kaplan", "J. Smith", "how to build",
              "  ", " Jared\tvan  Kaplan\n", "Jean- Luc", "--A"}

PersonInit ==
    /\ PipelineIdle
    /\ call \in {[fn |-> "looks_like_person", name |-> n] : n \in Names}
    /\ frame = [pc |-> "start"]
    /\ ret = NotRun

\* looks_like_person up to its loop
PersonStart ==
    /\ call.fn = "looks_like_person" /\ frame.pc = "start"
    /\ LET tokens == SplitWs(NormaliseDashes(call.name))
       IN  IF ~(1 <= Len(tokens) /\ Len(tokens) <= 6)
           THEN /\ ret' = "False"
                /\ frame' = [pc |-> "done", tokens |-> tokens, i |-> 1, good |-> 0]
           ELSE /\ frame' = [pc |-> "loop", tokens |-> tokens, i |-> 1, good |-> 0]
                /\ UNCHANGED ret
    /\ UNCHANGED call
    /\ UNCHANGED pipelineVars

\* one iteration of "for tok in tokens"
PersonToken ==
    /\ call.fn = "looks_like_person" /\ frame.pc = "loop"
    /\ frame.i <= Len(frame.tokens)
    /\ frame' = [frame EXCEPT
                   !.i = @ + 1,
                   !.good = IF TokenOk(frame.tokens[frame.i]) THEN @ + 1 ELSE @]
    /\ UNCHANGED <<call, ret>>
    /\ UNCHANGED pipelineVars

\* return good >= max(1, len(tokens) - 1)
PersonReturn ==
    /\ call.fn = "looks_like_person" /\ frame.pc = "loop"
    /\ frame.i > Len(frame.tokens)
    /\ ret' = IF frame.good >= Required(Len(frame.tokens)) THEN "True" ELSE "False"
    /\ frame' = [frame EXCEPT !.pc = "done"]
    /\ UNCHANGED call
    /\ UNCHANGED pipelineVars

PersonNext ==
    \/ PersonStart
    \/ PersonToken
    \/ PersonReturn

PersonSpec == PersonInit /\ [][PersonNext]_vars

PersonDone == call.fn = "looks_like_person" /\ frame.pc = "done"

\* where the whitespace tokens of s begin
TokenStarts(s) ==
    {k \in 1..Len(s) : ~IsSpace(s, k) /\ (k = 1 \/ IsSpace(s, k - 1))}

\* the token of s that begins at k
TokenFrom(s, k) ==
    LET rest == {j \in k..Len(s) : IsSpace(s, j)}
    IN  SubSeq(s, k, IF rest = {} THEN Len(s) ELSE Min(rest) - 1)

\* where the non-empty hyphen-separated parts of tok begin
PartStarts(tok) ==
    {k \in 1..Len(tok) :
        CharAt(tok, k) # "-" /\ (k = 1 \/ CharAt(tok, k - 1) = "-")}

\* every non-empty hyphen-separated part of tok starts with an upper-case letter
NonEmptyPartsUpper(tok) == \A k \in PartStarts(tok) : IsUpper(CharAt(tok, k))

\* every hyphen-separated part of tok starts with an upper-case letter: none
\* of the parts is empty
EveryPartUpper(tok) ==
    /\ NonEmptyPartsUpper(tok)
    /\ CharAt(tok, 1) # "-" /\ CharAt(tok, Len(tok)) # "-"
    /\ ~Contains(tok, "--")

\* how many tokens of s pass the rule
Passing(s, Rule(_)) ==
    Cardinality({k \in TokenStarts(s) : Rule(TokenFrom(s, k))})

TokenCount(s) == Cardinality(TokenStarts(s))

\* C20 as stated: looks_like_person(text) is true exactly when text has
\* between 1 and 6 whitespace tokens, dashes normalised to hyphens, and at
\* least tokenCount - 1 of them have every hyphen-separated part starting
\* with an upper-case letter
C20_AllButOneTokenCapitalised ==
    PersonDone =>
        LET text == NormaliseDashes(call.name)
        IN  ret = "True" <=>
               /\ 1 <= TokenCount(text) /\ TokenCount(text) <= 6
               /\ Passing(text, EveryPartUpper) >= TokenCount(text) - 1

\* C20: looks_like_person(text) is true exactly when text has between 1 and
\* 6 whitespace tokens, dashes normalised to hyphens, and at least
\* max(1, tokenCount - 1) of them have every non-empty hyphen-separated part
\* starting with an upper-case letter; "Jared Kaplan" and "J. Smith" pass
\* and "how to build" fails
C20_AllButOneAndAtLeastOne ==
    PersonDone =>
        LET text == NormaliseDashes(call.name)
            n == TokenCount(text)
        IN  /\ ret = "True" <=>
                  /\ 1 <= n /\ n <= 6
                  /\ Passing(text, NonEmptyPartsUpper) >= 1
                  /\ Passing(text, NonEmptyPartsUpper) >= n - 1
            /\ call.name \in {"Jared Kaplan", "J. Smith"} => ret = "True"
            /\ call.name = "how to build" => ret = "False"

\* a name of several tokens passed with one token that is not capitalised
C20_Witness ==
    /\ PersonDone
    /\ ret = "True"
    /\ Len(frame.tokens) >= 2
    /\ frame.good = Len(frame.tokens) - 1

-----------------------------------------------------------------------------
(* split_title_and_speaker of ebook_pipeline/youtube.py.  A title is one   *)
(* line of text.                                                           *)

MaxTitleParts == 3      \* parts of a title put together from TitleParts

\* looks_like_person as a function of the name
looks_like_person(name) ==
    LET tokens == SplitWs(NormaliseDashes(name))
    IN  /\ 1 <= Len(tokens) /\ Len(tokens) <= 6
        /\ Cardinality({k \in 1..Len(tokens) : TokenOk(tokens[k])})
              >= Required(Len(tokens))

\* where the run of whitespace that ends just before k begins (k if there
\* is none)
SpaceRunStart(s, k) ==
    Min({j \in 1..k : \A m \in j..(k - 1) : IsSpace(s, m)})

\* the text of the series stands at k, in any case
SeriesAt(s, k) ==
    k + 16 <= Len(s) /\ Lower(SubSeq(s, k, k + 16)) = "ai startup school"

\* there is only whitespace between c and the series text that follows
SeriesAfter(s, c) ==
    \E k \in (c + 1)..Len(s) :
        SeriesAt(s, k) /\ \A m \in (c + 1)..(k - 1) : IsSpace(s, m)

\* re.sub(r"\s*[|\-]\s*ai startup school.*$", "", t, flags=re.IGNORECASE)
CutSeriesSuffix(t) ==
    LET seps == {c \in 1..Len(t) : CharAt(t, c) \in {"|", "-"} /\ SeriesAfter(t, c)}
    IN  IF seps = {} THEN t
        ELSE SubSeq(t, 1, SpaceRunStart(t, Min(seps)) - 1)

\* re.sub(r"\s*\(ai startup school.*\)$", "", t, flags=re.IGNORECASE)
CutSeriesBracket(t) ==
    LET opens == {c \in 1..Len(t) :
                    /\ CharAt(t, c) = "(" /\ SeriesAt(t, c + 1)
                    /\ c + 18 <= Len(t) /\ CharAt(t, Len(t)) = ")"}
    IN  IF opens = {} THEN t
        ELSE SubSeq(t, 1, SpaceRunStart(t, Min(opens)) - 1)

clean_title_for_series(title) == Strip(CutSeriesBracket(CutSeriesSuffix(title)))

NoMatch == [matched |-> FALSE]

\* re.search(r"(.+?)\s+kw\s+(.+)$", t, flags=re.IGNORECASE) on a title
\* without surrounding whitespace: the first kw that stands between
\* whitespace, with text before it; the two groups, stripped
KeywordMatch(t, kw) ==
    LET at == {k \in 3..(Len(t) - Len(kw) - 1) :
                 /\ IsSpace(t, k - 1)
                 /\ Lower(SubSeq(t, k, k + Len(kw) - 1)) = kw
                 /\ IsSpace(t, k + Len(kw))
                 /\ SpaceRunStart(t, k) >= 2}
    IN  IF at = {} THEN NoMatch
        ELSE [matched |-> TRUE,
              left |-> Strip(SubSeq(t, 1, Min(at) - 1)),
              right |-> Strip(SubSeq(t, Min(at) + Len(kw), Len(t)))]

\* re.search(r"^([^seps]+)[seps]\s*(.+)$", t): the first separator of the
\* title, with text before it and text after it; the two groups, stripped
SeparatorMatch(t, seps) ==
    LET at == {c \in 1..Len(t) : CharAt(t, c) \in seps}
    IN  IF at = {} \/ Min(at) = 1 \/ Min(at) = Len(t) THEN NoMatch
        ELSE [matched |-> TRUE,
              left |-> Strip(SubSeq(t, 1, Min(at) - 1)),
              right |-> Strip(SubSeq(t, Min(at) + 1, Len(t)))]

DashSeparators == {"-", "|", EnDash, EmDash}

\* t.rsplit('|', 1)
RSplitPipe(t) ==
    LET at == {c \in 1..Len(t) : CharAt(t, c) = "|"}
        last == CHOOSE c \in at : \A d \in at : d <= c
    IN  [left |-> SubSeq(t, 1, last - 1), right |-> SubSeq(t, last + 1, Len(t))]

\* ' '.join(tokens[-take:])
TailTokens(tokens, take) ==
    Join(" ", SubSeq(tokens, Len(tokens) - take + 1, Len(tokens)))

NoSplit == [returned |-> FALSE]
SplitResult(talk, speaker) == [returned |-> TRUE, talk |-> talk, speaker |-> speaker]

\* patterns 1 and 1.5: "A by B", "A with B"
TalkKeywordSpeaker(t, kw) ==
    LET m == KeywordMatch(t, kw)
    IN  IF m.matched /\ looks_like_person(m.right)
        THEN SplitResult(m.left, m.right) ELSE NoSplit

SpeakerSeparatorTalkUnchecked(t, seps) ==
    LET m == SeparatorMatch(t, seps)
    IN  IF m.matched THEN SplitResult(m.right, m.left) ELSE NoSplit

\* patterns 2 and 3: "A: B", "A - B"
SpeakerSeparatorTalk(t, seps) ==
    LET m == SeparatorMatch(t, seps)
    IN  IF m.matched /\ looks_like_person(m.left)
        THEN SplitResult(m.right, m.left) ELSE NoSplit

\* pattern 4: "A | ... Name", the name being the last 4, 3 or 2 tokens
PipeTail(t) ==
    IF ~Contains(t, "|") THEN NoSplit
    ELSE LET sp == RSplitPipe(t)
             tokens == SplitWs(Strip(sp.right))
             takes == {n \in {4, 3, 2} :
                         Len(tokens) >= n /\ looks_like_person(TailTokens(tokens, n))}
             take == CHOOSE n \in takes : \A m \in takes : m <= n
         IN  IF takes = {} THEN NoSplit
             ELSE SplitResult(Strip(sp.left), TailTokens(tokens, take))

TitleParts ==
    {"Jared Kaplan ", "how to build ", "by ", "with ", ": ", "- ", "| ",
     "| AI Startup School"}

\* titles of up to MaxTitleParts parts, and titles as playlists have them
Titles ==
    {Concat(ps) : ps \in SeqsUpTo(TitleParts, MaxTitleParts)}
        \cup {"Jared Kaplan: Scaling Laws", "Just A Talk Title",
              "How To Build The Future by sam altman with Jared Kaplan",
              "scaling laws by design: a talk - Jared Kaplan",
              "notes on scaling: the talk - Jared Kaplan",
              "the future of ai | Anthropic Co-founder Jared Kaplan",
              "on scaling | the co-founder of anthropic",
              "Jean~Luc Picard ^ on building (AI Startup School 2025)",
              "WITH  Jared Kaplan",
              "Jared Kaplan:"}

SplitInit ==
    /\ PipelineIdle
    /\ call \in {[fn |-> "split_title_and_speaker", raw_title |-> t] : t \in Titles}
    /\ frame = [pc |-> "start"]
    /\ ret = NotRun

\* t = clean_title_for_series(raw_title)
SplitClean ==
    /\ call.fn = "split_title_and_speaker" /\ frame.pc = "start"
    /\ frame' = [pc |-> "by", t |-> clean_title_for_series(call.raw_title)]
    /\ UNCHANGED <<call, ret>>
    /\ UNCHANGED pipelineVars

\* one pattern of split_title_and_speaker: return its split, or go on
TryPattern(here, split, next) ==
    /\ call.fn = "split_title_and_speaker" /\ frame.pc = here
    /\ IF split.returned
       THEN /\ ret' = [talk |-> split.talk, speaker |-> split.speaker]
            /\ frame' = [frame EXCEPT !.pc = "done"]
       ELSE /\ frame' = [frame EXCEPT !.pc = next]
            /\ UNCHANGED ret
    /\ UNCHANGED call
    /\ UNCHANGED pipelineVars

TryBy == TryPattern("by", TalkKeywordSpeaker(frame.t, "by"), "with")

TryWith == TryPattern("with", TalkKeywordSpeaker(frame.t, "with"), "colon")

TryColon == TryPattern("colon", SpeakerSeparatorTalk(frame.t, {":"}), "dash")

TryDash == TryPattern("dash", SpeakerSeparatorTalk(frame.t, DashSeparators), "pipe")

TryPipe == TryPattern("pipe", PipeTail(frame.t), "default")

\* return t, None
SplitDefault == TryPattern("default", SplitResult(frame.t, None), "done")

SplitNext ==
    \/ SplitClean
    \/ TryBy
    \/ TryWith
    \/ TryColon
    \/ TryDash
    \/ TryPipe
    \/ SplitDefault

SplitSpec == SplitInit /\ [][SplitNext]_vars

SplitDone == call.fn = "split_title_and_speaker" /\ frame.pc = "done"

\* the rule of looks_like_person, stated on the text
PersonLike(text) ==
    LET t == NormaliseDashes(text)
    IN  /\ 1 <= TokenCount(t) /\ TokenCount(t) <= 6
        /\ Passing(t, NonEmptyPartsUpper) >= 1
        /\ Passing(t, NonEmptyPartsUpper) >= TokenCount(t) - 1

\* what a pattern that matches t offers: <<talk, speaker>>
KeywordOffer(t, kw) ==
    LET m == KeywordMatch(t, kw)
    IN  IF m.matched THEN <<(<<m.left, m.right>>)>> ELSE <<>>

SeparatorOffer(t, seps) ==
    LET m == SeparatorMatch(t, seps)
    IN  IF m.matched THEN <<(<<m.right, m.left>>)>> ELSE <<>>

PipeOffer(t, take) ==
    LET tokens == SplitWs(RSplitPipe(t).right)
    IN  IF Contains(t, "|") /\ Len(tokens) >= take
        THEN <<(<<Strip(RSplitPipe(t).left), TailTokens(tokens, take)>>)>>
        ELSE <<>>

\* the offers of the patterns in their fixed order
Offers(t) ==
    KeywordOffer(t, "by") \o KeywordOffer(t, "with")
        \o SeparatorOffer(t, {":"}) \o SeparatorOffer(t, DashSeparators)
        \o PipeOffer(t, 4) \o PipeOffer(t, 3) \o PipeOffer(t, 2)

\* the first offer whose speaker looks like a person, or the title alone
FirstPersonOffer(t) ==
    LET good == {k \in 1..Len(Offers(t)) : PersonLike(Offers(t)[k][2])}
    IN  IF good = {} THEN <<t, None>> ELSE Offers(t)[Min(good)]

PatternOrder == <<"by", "with", "colon", "dash", "pipe", "default", "done">>

PatternRank(at) == CHOOSE k \in 1..Len(PatternOrder) : PatternOrder[k] = at

\* C21: split_title_and_speaker tries its patterns in the order by, with,
\* "speaker: talk", "speaker - talk", pipe tail, one after the other, and
\* returns the split of the first whose speaker side looks like a person; a
\* speaker it returns looks like a person, and when no pattern passes it
\* returns the cleaned title and no speaker
C21_FirstPatternWithPersonWins ==
    /\ [](SplitDone =>
            /\ <<ret.talk, ret.speaker>> = FirstPersonOffer(frame.t)
            /\ ret.speaker # None => PersonLike(ret.speaker)
            /\ frame.t = clean_title_for_series(call.raw_title)
            /\ call.raw_title = "Jared Kaplan: Scaling Laws"
                  => ret = [talk |-> "Scaling Laws", speaker |-> "Jared Kaplan"]
            /\ call.raw_title = "Just A Talk Title"
                  => ret = [talk |-> "Just A Talk Title", speaker |-> None])
    /\ [][(call.fn = "split_title_and_speaker" /\ frame.pc \notin {"start", "done"}) =>
            \/ frame'.pc = "done" /\ ret'.speaker # None
            \/ frame'.pc = "done" /\ frame.pc = "default"
            \/ PatternRank(frame'.pc) = PatternRank(frame.pc) + 1 /\ ret' = ret]_vars

\* an earlier pattern matched a speaker side that is no person, and a later
\* pattern gave the split
C21_Witness ==
    /\ SplitDone
    /\ ret.speaker # None
    /\ Len(Offers(frame.t)) >= 2
    /\ <<ret.talk, ret.speaker>> # Offers(frame.t)[1]

-----------------------------------------------------------------------------
(* Caption track selection: fetch_transcript_from_player_response of       *)
(* youtube.py and fetch_transcript_via_cookies of subtitles.py, given the  *)
(* watch page and the answer to the caption request.                       *)

\* score of fetch_transcript_via_cookies
score(track) ==
    (IF SubSeq(track.languageCode, 1, 2) = "en" THEN 3 ELSE 0)
  + (IF Contains(track.name, "English") THEN 1 ELSE 0)
  + (IF track.kind = "asr" THEN 1 ELSE 0)

\* tracks.sort(key=score, reverse=True) is stable
RECURSIVE SortByTrackScore(_)
SortByTrackScore(tracks) ==
    IF tracks = <<>> THEN <<>>
    ELSE LET rest == SortByTrackScore(SubSeq(tracks, 1, Len(tracks) - 1))
             t == tracks[Len(tracks)]
             before == {k \in 1..Len(rest) : score(rest[k]) >= score(t)}
         IN  SubSeq(rest, 1, Cardinality(before)) \o <<t>>
             \o SubSeq(rest, Cardinality(before) + 1, Len(rest))

CaptionTracks ==
    { Track("en", "English", "", "https://captions/manual?v=1"),
      Track("en", "English", "asr", "https://captions/asr?v=1&fmt=srv3"),
      Track("de", "Deutsch", "", "https://captions/de"),
      Track("en", "English", "asr", "") }

CaptionWatchPages ==
    {FetchFailed, [pr |-> FALSE, tracks |-> <<>>]}
    \cup { [pr |-> TRUE, tracks |-> ts] : ts \in SeqsUpTo(CaptionTracks, MaxTracks) }

CaptionFns == {"fetch_transcript_from_player_response", "fetch_transcript_via_cookies"}

CaptionInit ==
    /\ PipelineIdle
    /\ call \in {[fn |-> f, watch |-> w, resp |-> r] :
                    f \in CaptionFns, w \in CaptionWatchPages,
                    r \in {FetchFailed, EmptyBody, HtmlBody, TextBody}}
    /\ frame = [pc |-> "start", fetched |-> <<>>]
    /\ ret = NotRun

\* from the request of the watch page to tracks.sort(...)
CaptionLoad ==
    /\ call.fn \in CaptionFns /\ frame.pc = "start"
    /\ IF call.watch = FetchFailed \/ ~call.watch.pr \/ call.watch.tracks = <<>>
       THEN ret' = None /\ frame' = [frame EXCEPT !.pc = "done"]
       ELSE /\ frame' = [pc |-> "sorted", fetched |-> <<>>,
                         tracks |-> IF call.fn = "fetch_transcript_via_cookies"
                                    THEN SortByTrackScore(call.watch.tracks)
                                    ELSE SortTracks(call.watch.tracks)]
            /\ UNCHANGED ret
    /\ UNCHANGED call
    /\ UNCHANGED pipelineVars

\* base_url = tracks[0].get('baseUrl') and the format parameter
CaptionPick ==
    /\ call.fn \in CaptionFns /\ frame.pc = "sorted"
    /\ LET base_url == frame.tracks[1].baseUrl
       IN  IF ~Truthy(base_url)
           THEN ret' = None /\ frame' = [frame EXCEPT !.pc = "done"]
           ELSE /\ frame' = [pc |-> "fetch", fetched |-> <<>>,
                             tracks |-> frame.tracks, base_url |-> WithFormat(base_url)]
                /\ UNCHANGED ret
    /\ UNCHANGED call
    /\ UNCHANGED pipelineVars

\* the request of the caption track, and what is returned
CaptionFetch ==
    /\ call.fn \in CaptionFns /\ frame.pc = "fetch"
    /\ frame' = [frame EXCEPT !.pc = "done", !.fetched = Append(@, frame.base_url)]
    /\ ret' = IF call.resp = FetchFailed THEN None
              ELSE IF call.fn = "fetch_transcript_from_player_response"
              THEN call.resp
              ELSE IF call.resp.empty THEN None
              ELSE xml_to_paragraphs(call.resp)
    /\ UNCHANGED call
    /\ UNCHANGED pipelineVars

CaptionNext ==
    \/ CaptionLoad
    \/ CaptionPick
    \/ CaptionFetch

CaptionSpec == CaptionInit /\ [][CaptionNext]_vars

CaptionDone == call.fn \in CaptionFns /\ frame.pc = "done"

\* the track whose URL was requested
Requested(tracks) ==
    {k \in 1..Len(tracks) :
        /\ frame.fetched # <<>>
        /\ tracks[k].baseUrl # ""
        /\ StartsWith(frame.fetched[1], tracks[k].baseUrl)}

\* C22 as stated: among tracks with the same language code and display
\* name, the manually authored track, not the auto-generated one, is the
\* one selected and fetched
C22_ManualAboveAsr ==
    (CaptionDone /\ call.watch # FetchFailed) =>
        LET tracks == call.watch.tracks
        IN  \A k \in Requested(tracks) :
                tracks[k].kind = "asr" =>
                    ~\E m \in 1..Len(tracks) :
                        /\ tracks[m].kind # "asr"
                        /\ tracks[m].languageCode = tracks[k].languageCode
                        /\ tracks[m].name = tracks[k].name

\* the score the function gives a track
ScoreOf(fn, t) ==
    (IF StartsWith(t.languageCode, "en") THEN 3 ELSE 0)
  + (IF ~Contains(t.name, "English") THEN 0
     ELSE IF fn = "fetch_transcript_via_cookies" THEN 1 ELSE 2)
  + (IF t.kind = "asr" THEN 1 ELSE 0)

\* the first track of the list among those with the highest score
TopTrack(fn, tracks) ==
    Min({k \in 1..Len(tracks) :
            \A j \in 1..Len(tracks) : ScoreOf(fn, tracks[j]) <= ScoreOf(fn, tracks[k])})

\* C29: the step requests at most one caption track, the highest-scored one
\* (the first in list order among equally scored tracks), with a format
\* parameter appended only when the URL has none; when that track has no
\* base URL it returns nothing and requests no other track
C29_OnlyTopTrackFetched ==
    (CaptionDone /\ call.watch # FetchFailed /\ call.watch.tracks # <<>>) =>
        LET tracks == call.watch.tracks
            base == tracks[TopTrack(call.fn, tracks)].baseUrl
        IN  /\ Len(frame.fetched) <= 1
            /\ base = "" => (frame.fetched = <<>> /\ ret = None)
            /\ (base # "" /\ call.watch.pr) =>
                  /\ Len(frame.fetched) = 1
                  /\ Contains(base, "fmt=") => frame.fetched[1] = base
                  /\ ~Contains(base, "fmt=") =>
                        frame.fetched[1] \in {base \o "?fmt=srv1", base \o "&fmt=srv1"}

\* the top track had no base URL while a lower-scored track had one
C29_Witness ==
    /\ CaptionDone /\ call.watch # FetchFailed /\ call.watch.tracks # <<>>
    /\ call.watch.tracks[TopTrack(call.fn, call.watch.tracks)].baseUrl = ""
    /\ \E k \in 1..Len(call.watch.tracks) : call.watch.tracks[k].baseUrl # ""
    /\ frame.fetched = <<>>

-----------------------------------------------------------------------------
(* fetch of ebook_pipeline/youtube.py, given how each request it may make  *)
(* ends: with a response ("ok"), with URLError or HTTPError, or with an    *)
(* exception urlopen and read raise that is neither (a connection the      *)
(* server closes without a response raises http.client.RemoteDisconnected, *)
(* a stalled body socket.timeout).                                         *)

Retries == 3

AttemptOutcomes == {"ok", "URLError", "HTTPError", "RemoteDisconnected", "timeout"}

FetchInit ==
    /\ PipelineIdle
    /\ call \in {[fn |-> "fetch", outcomes |-> os] :
                    os \in SeqsOfLen(AttemptOutcomes, Retries)}
    /\ frame = [pc |-> "loop", i |-> 0, requests |-> 0, sleeps |-> 0,
                last_err |-> None, raised |-> "none"]
    /\ ret = NotRun

\* one pass through the body of "for i in range(retries)" up to the return
\* or the except clause
FetchAttempt ==
    /\ call.fn = "fetch" /\ frame.pc = "loop" /\ frame.i < Retries
    /\ LET outcome == call.outcomes[frame.i + 1]
       IN  IF outcome = "ok"
           THEN /\ ret' = "<html>"
                /\ frame' = [frame EXCEPT !.pc = "done", !.requests = @ + 1]
           ELSE IF outcome \in {"URLError", "HTTPError"}
           THEN /\ frame' = [frame EXCEPT !.pc = "except", !.requests = @ + 1,
                                          !.last_err = outcome]
                /\ UNCHANGED ret
           ELSE /\ frame' = [frame EXCEPT !.pc = "raised", !.requests = @ + 1,
                                          !.raised = outcome]
                /\ UNCHANGED ret
    /\ UNCHANGED call
    /\ UNCHANGED pipelineVars

\* time.sleep(sleep) in the except clause
FetchBackoff ==
    /\ call.fn = "fetch" /\ frame.pc = "except"
    /\ frame' = [frame EXCEPT !.pc = "loop", !.i = @ + 1, !.sleeps = @ + 1]
    /\ UNCHANGED <<call, ret>>
    /\ UNCHANGED pipelineVars

\* raise RuntimeError(f"Failed to fetch {url}: {last_err}")
FetchGiveUp ==
    /\ call.fn = "fetch" /\ frame.pc = "loop" /\ frame.i >= Retries
    /\ frame' = [frame EXCEPT !.pc = "raised", !.raised = "RuntimeError"]
    /\ UNCHANGED <<call, ret>>
    /\ UNCHANGED pipelineVars

FetchNext ==
    \/ FetchAttempt
    \/ FetchBackoff
    \/ FetchGiveUp

FetchSpec == FetchInit /\ [][FetchNext]_vars

FetchRunning == call.fn = "fetch" /\ frame.pc \in {"loop", "except"}

\* the requests made so far that failed
FailedRequests ==
    Cardinality({k \in 1..frame.requests : call.outcomes[k] # "ok"})

\* steps fetch has left at most
FetchRank == 2 * (Retries - frame.i) + (IF frame.pc = "loop" THEN 1 ELSE 0)

\* C23 as stated: fetch makes at most 3 attempts, returns the response of
\* the first successful attempt without a further attempt, waits the
\* backoff after each failed attempt, raises only after all 3 attempts have
\* failed, and always terminates
C23_ThreeAttemptsThenFailure ==
    /\ [](call.fn = "fetch" =>
            /\ frame.requests <= Retries
            /\ frame.pc = "done" =>
                  /\ call.outcomes[frame.requests] = "ok"
                  /\ FailedRequests = frame.requests - 1
                  /\ frame.sleeps = FailedRequests
            /\ frame.pc = "raised" =>
                  /\ frame.requests = Retries
                  /\ FailedRequests = Retries
                  /\ frame.sleeps = FailedRequests)
    /\ [](FetchRunning => FetchRank >= 0)
    /\ [][FetchRunning => (~FetchRunning' \/ FetchRank' < FetchRank)]_vars

-----------------------------------------------------------------------------
(* What stops a run of fetch_and_store *)

\* C24 as stated: a page fetch that exhausts its retries is never passed on
\* to the caller of fetch_and_store; a run ends with an error only for a
\* playlist that cannot be discovered or a playlist page whose initial data
\* cannot be parsed
C24_OnlyDiscoveryOrParseFailureStops ==
    (mode = "batch" /\ pc = "failed") =>
        error \in {"PlaylistDiscoveryError", PlaylistParseError}

\* C25: fetch_and_store writes the talks file once, after the last video of
\* the list has been processed: not while videos are being processed, not
\* twice, and not in a run that ends with a discovery or playlist error; a
\* run that returns has written it
C25_TalksWrittenOnceAtEnd ==
    /\ [](mode = "batch" =>
            /\ Len(talks_file) <= 1
            /\ talks_file # <<>> =>
                  (pc = "done" /\ Len(exported_list) = Len(videos))
            /\ pc = "done" => Len(talks_file) = 1
            /\ pc = "failed" =>
                  (talks_file = <<>> /\ exported_list = <<>> /\ idx = 0))
    /\ [][(mode = "batch" /\ talks_file' # talks_file) =>
            /\ pc = "write" /\ pc' = "done"
            /\ idx > Len(videos)
            /\ talks_file'[1].talks = talks]_vars

\* a run over two videos has written the talks file
C25_Witness ==
    /\ mode = "batch" /\ pc = "done"
    /\ Len(videos) >= 2
    /\ Len(exported_list) = Len(videos)
    /\ Len(talks_file) = 1

-----------------------------------------------------------------------------
(* The length cap in parse_vtt_to_paragraphs *)

VttLoop == call.fn = "parse_vtt_to_paragraphs" /\ frame.pc = "vtt"

\* C26 as stated: whenever the joined buffer exceeds 800 characters after a
\* fragment has been incorporated, by appending or by roll-up replacement,
\* it is flushed before the next fragment is considered, so a paragraph is
\* not longer than 800 characters plus the fragment that made it overflow
\* (and the space that joins it)
C26_CapAfterEveryChange ==
    /\ [](VttLoop => Len(Join(" ", frame.buf)) <= MaxParaLen)
    /\ [][(AtFragment /\ Len(frame'.paras) > Len(frame.paras)) =>
            Len(frame'.paras[Len(frame'.paras)]) <= MaxParaLen + 1 + Len(Frag)]_vars

\* a blank line stands between lines a and b, which carry caption texts
\* neither of which contains the other
AcrossBlankLine(lines, a, b) ==
    /\ a < b
    /\ IsCaption(lines, a) /\ IsCaption(lines, b)
    /\ \E c \in (a + 1)..(b - 1) : lines[c] = ""
    /\ ~Contains(VttText(lines[a]), VttText(lines[b]))
    /\ ~Contains(VttText(lines[b]), VttText(lines[a]))

\* C27 as stated: parse_vtt_to_paragraphs breaks the paragraph at a blank
\* line between cue blocks: text lines with a blank line between them are
\* not in the same paragraph of the text returned
C27_BlankLineBreaksParagraph ==
    VttDone =>
        \A a, b \in 1..Len(call.lines) :
            AcrossBlankLine(call.lines, a, b) =>
                \A k \in 1..Len(Paragraphs(ret)) :
                    ~(/\ Contains(Paragraphs(ret)[k], VttText(call.lines[a]))
                      /\ Contains(Paragraphs(ret)[k], VttText(call.lines[b])))

-----------------------------------------------------------------------------
(* The segment normaliser against the timed-XML normaliser *)

LibDone == call.fn = "fetch_transcript_with_library" /\ frame.pc = "done"

\* the segments as the <text> nodes of a timed-XML payload
AsXml(segs) ==
    Body(FALSE, TRUE, TRUE,
         [k \in 1..Len(segs) |-> Node(segs[k].text, segs[k].start, segs[k].duration)])

\* C28 as stated: for any sequence of segments, in any order, the segment
\* path of fetch_transcript_with_library returns exactly the paragraphs
\* xml_to_paragraphs returns for the same segments as timed-XML text nodes
C28_SegmentsLikeXml ==
    (LibDone /\ ret # None) =>
        Paragraphs(ret) = Paragraphs(xml_to_paragraphs(AsXml(call.transcript)))

-----------------------------------------------------------------------------
(* What a stored talk carries *)

NonBlank(t) == Strip(t) # ""

\* C30 as stated: every talk record that assemble_talk_entry returns, and
\* every record kept in talks, carries a transcript with at least one
\* non-whitespace character; a source whose normalised output is blank
\* counts as no transcript
C30_TranscriptNeverBlank ==
    /\ (Returned /\ entry # NoEntry) => NonBlank(entry.transcript)
    /\ \A k \in 1..Len(talks) : NonBlank(talks[k].transcript)
=============================================================================
